---- MODULE Spec2Model ----
(***************************************************************************)
(* Model of the algorithmic components of dpat_wholeslide and ids7client:  *)
(*   - multipart.py : MultipartParser, a streaming multipart/related       *)
(*                    decoder driven by a draining consumer;               *)
(*   - dzidesc.py   : DziDescription / DziLevel / DziTile, the Deep Zoom   *)
(*                    pyramid geometry;                                    *)
(*   - helpers.py   : connection_retry, the retry loop around a request;   *)
(*   - worker.py    : cli_watch with locks.py, the watch workers sharing   *)
(*                    one queue folder.                                    *)
(* Bytes and characters are their integer codes (ASCII); a bytes object    *)
(* or a str is a sequence of codes.                                        *)
(***************************************************************************)
EXTENDS Integers, Sequences, FiniteSets, TLC

VARIABLES
    stream,   \* all bytes the chunk source will deliver
    pos,      \* number of bytes of stream already handed out as chunks
    pulls,    \* number of chunks obtained from the chunk source
    eos,      \* number of times the source signalled end-of-sequence
    minchunk, \* the least chunk length the source hands out
    _buffer,   \* MultipartParser._buffer
    next_chunk, \* the local next_chunk of a suspended _parse_part_chunks
    pc,       \* position of parts() / the draining consumer
    out,      \* parts received by the consumer: <<filename, body so far>>
    err,      \* the last exception raised to the consumer, "none" if none
    resumed,  \* the consumer has called next(parts) after an error in a body
    dzi,      \* the pyramid query and its outcome (DziDescription part)
    retry,    \* a request wrapped by connection_retry (ids7client helpers)
    watch     \* the queue folder, its locks and the watch workers (worker.py)

mpvars == <<stream, minchunk, pos, pulls, eos, _buffer, next_chunk, pc, out,
            err, resumed>>
vars == <<stream, minchunk, pos, pulls, eos, _buffer, next_chunk, pc, out,
          err, resumed, dzi, retry, watch>>

----------------------------------------------------------------------------
(* Python sequence primitives, as bytes / str implement them.              *)

Min2(a, b) == IF a < b THEN a ELSE b
Max2(a, b) == IF a > b THEN a ELSE b

\* A slice index i of a sequence of length n, as Python normalises it.
SliceIndex(i, n) == IF i < 0 THEN Max2(n + i, 0) ELSE Min2(i, n)

\* s[i:]
SliceFrom(s, i) == SubSeq(s, SliceIndex(i, Len(s)) + 1, Len(s))

\* s[:j]
SliceTo(s, j) == SubSeq(s, 1, SliceIndex(j, Len(s)))

\* s.startswith(p)
StartsWith(s, p) == Len(s) >= Len(p) /\ SubSeq(s, 1, Len(p)) = p

\* s.find(p): the lowest 0-based index where p occurs in s, -1 if none.
Find(s, p) ==
    LET hits == {i \in 0..(Len(s) - Len(p)) : SubSeq(s, i + 1, i + Len(p)) = p}
    IN  IF hits = {} THEN -1 ELSE CHOOSE i \in hits : \A j \in hits : i <= j

\* The characters that str.lower() changes one for one, as runs
\* <<first, last, step, offset>>: every step-th character from first to last
\* becomes the character offset places further (Unicode 14.0.0).
LowerRuns ==
   {<<65, 90, 1, 32>>, <<192, 214, 1, 32>>, <<216, 222, 1, 32>>,
    <<256, 302, 2, 1>>, <<306, 310, 2, 1>>, <<313, 327, 2, 1>>,
    <<330, 374, 2, 1>>, <<376, 376, 1, -121>>, <<377, 381, 2, 1>>,
    <<385, 385, 1, 210>>, <<386, 388, 2, 1>>, <<390, 390, 1, 206>>,
    <<391, 391, 1, 1>>, <<393, 394, 1, 205>>, <<395, 395, 1, 1>>,
    <<398, 398, 1, 79>>, <<399, 399, 1, 202>>, <<400, 400, 1, 203>>,
    <<401, 401, 1, 1>>, <<403, 403, 1, 205>>, <<404, 404, 1, 207>>,
    <<406, 406, 1, 211>>, <<407, 407, 1, 209>>, <<408, 408, 1, 1>>,
    <<412, 412, 1, 211>>, <<413, 413, 1, 213>>, <<415, 415, 1, 214>>,
    <<416, 420, 2, 1>>, <<422, 422, 1, 218>>, <<423, 423, 1, 1>>,
    <<425, 425, 1, 218>>, <<428, 428, 1, 1>>, <<430, 430, 1, 218>>,
    <<431, 431, 1, 1>>, <<433, 434, 1, 217>>, <<435, 437, 2, 1>>,
    <<439, 439, 1, 219>>, <<440, 440, 1, 1>>, <<444, 444, 1, 1>>,
    <<452, 452, 1, 2>>, <<453, 453, 1, 1>>, <<455, 455, 1, 2>>,
    <<456, 456, 1, 1>>, <<458, 458, 1, 2>>, <<459, 475, 2, 1>>,
    <<478, 494, 2, 1>>, <<497, 497, 1, 2>>, <<498, 500, 2, 1>>,
    <<502, 502, 1, -97>>, <<503, 503, 1, -56>>, <<504, 542, 2, 1>>,
    <<544, 544, 1, -130>>, <<546, 562, 2, 1>>, <<570, 570, 1, 10795>>,
    <<571, 571, 1, 1>>, <<573, 573, 1, -163>>, <<574, 574, 1, 10792>>,
    <<577, 577, 1, 1>>, <<579, 579, 1, -195>>, <<580, 580, 1, 69>>,
    <<581, 581, 1, 71>>, <<582, 590, 2, 1>>, <<880, 882, 2, 1>>,
    <<886, 886, 1, 1>>, <<895, 895, 1, 116>>, <<902, 902, 1, 38>>,
    <<904, 906, 1, 37>>, <<908, 908, 1, 64>>, <<910, 911, 1, 63>>,
    <<913, 929, 1, 32>>, <<931, 939, 1, 32>>, <<975, 975, 1, 8>>,
    <<984, 1006, 2, 1>>, <<1012, 1012, 1, -60>>, <<1015, 1015, 1, 1>>,
    <<1017, 1017, 1, -7>>, <<1018, 1018, 1, 1>>, <<1021, 1023, 1, -130>>,
    <<1024, 1039, 1, 80>>, <<1040, 1071, 1, 32>>, <<1120, 1152, 2, 1>>,
    <<1162, 1214, 2, 1>>, <<1216, 1216, 1, 15>>, <<1217, 1229, 2, 1>>,
    <<1232, 1326, 2, 1>>, <<1329, 1366, 1, 48>>, <<4256, 4293, 1, 7264>>,
    <<4295, 4295, 1, 7264>>, <<4301, 4301, 1, 7264>>,
    <<5024, 5103, 1, 38864>>, <<5104, 5109, 1, 8>>, <<7312, 7354, 1, -3008>>,
    <<7357, 7359, 1, -3008>>, <<7680, 7828, 2, 1>>, <<7838, 7838, 1, -7615>>,
    <<7840, 7934, 2, 1>>, <<7944, 7951, 1, -8>>, <<7960, 7965, 1, -8>>,
    <<7976, 7983, 1, -8>>, <<7992, 7999, 1, -8>>, <<8008, 8013, 1, -8>>,
    <<8025, 8031, 2, -8>>, <<8040, 8047, 1, -8>>, <<8072, 8079, 1, -8>>,
    <<8088, 8095, 1, -8>>, <<8104, 8111, 1, -8>>, <<8120, 8121, 1, -8>>,
    <<8122, 8123, 1, -74>>, <<8124, 8124, 1, -9>>, <<8136, 8139, 1, -86>>,
    <<8140, 8140, 1, -9>>, <<8152, 8153, 1, -8>>, <<8154, 8155, 1, -100>>,
    <<8168, 8169, 1, -8>>, <<8170, 8171, 1, -112>>, <<8172, 8172, 1, -7>>,
    <<8184, 8185, 1, -128>>, <<8186, 8187, 1, -126>>, <<8188, 8188, 1, -9>>,
    <<8486, 8486, 1, -7517>>, <<8490, 8490, 1, -8383>>,
    <<8491, 8491, 1, -8262>>, <<8498, 8498, 1, 28>>, <<8544, 8559, 1, 16>>,
    <<8579, 8579, 1, 1>>, <<9398, 9423, 1, 26>>, <<11264, 11311, 1, 48>>,
    <<11360, 11360, 1, 1>>, <<11362, 11362, 1, -10743>>,
    <<11363, 11363, 1, -3814>>, <<11364, 11364, 1, -10727>>,
    <<11367, 11371, 2, 1>>, <<11373, 11373, 1, -10780>>,
    <<11374, 11374, 1, -10749>>, <<11375, 11375, 1, -10783>>,
    <<11376, 11376, 1, -10782>>, <<11378, 11378, 1, 1>>,
    <<11381, 11381, 1, 1>>, <<11390, 11391, 1, -10815>>,
    <<11392, 11490, 2, 1>>, <<11499, 11501, 2, 1>>, <<11506, 11506, 1, 1>>,
    <<42560, 42604, 2, 1>>, <<42624, 42650, 2, 1>>, <<42786, 42798, 2, 1>>,
    <<42802, 42862, 2, 1>>, <<42873, 42875, 2, 1>>,
    <<42877, 42877, 1, -35332>>, <<42878, 42886, 2, 1>>,
    <<42891, 42891, 1, 1>>, <<42893, 42893, 1, -42280>>,
    <<42896, 42898, 2, 1>>, <<42902, 42920, 2, 1>>,
    <<42922, 42922, 1, -42308>>, <<42923, 42923, 1, -42319>>,
    <<42924, 42924, 1, -42315>>, <<42925, 42925, 1, -42305>>,
    <<42926, 42926, 1, -42308>>, <<42928, 42928, 1, -42258>>,
    <<42929, 42929, 1, -42282>>, <<42930, 42930, 1, -42261>>,
    <<42931, 42931, 1, 928>>, <<42932, 42946, 2, 1>>,
    <<42948, 42948, 1, -48>>, <<42949, 42949, 1, -42307>>,
    <<42950, 42950, 1, -35384>>, <<42951, 42953, 2, 1>>,
    <<42960, 42960, 1, 1>>, <<42966, 42968, 2, 1>>, <<42997, 42997, 1, 1>>,
    <<65313, 65338, 1, 32>>, <<66560, 66599, 1, 40>>,
    <<66736, 66771, 1, 40>>, <<66928, 66964, 2, 39>>,
    <<66929, 66937, 2, 39>>, <<66941, 66953, 2, 39>>,
    <<66957, 66961, 2, 39>>, <<66965, 66965, 1, 39>>,
    <<68736, 68786, 1, 64>>, <<71840, 71871, 1, 32>>,
    <<93760, 93791, 1, 32>>, <<125184, 125217, 1, 34>>}

\* The characters that are skipped when the neighbours of a capital sigma
\* are looked at (case-ignorable), as runs <<first, last>>.
CaseIgnorableRuns ==
   {<<39, 39>>, <<46, 46>>, <<58, 58>>, <<94, 94>>, <<96, 96>>, <<168, 168>>,
    <<173, 173>>, <<175, 175>>, <<180, 180>>, <<183, 184>>, <<688, 879>>,
    <<884, 885>>, <<890, 890>>, <<900, 901>>, <<903, 903>>, <<1155, 1161>>,
    <<1369, 1369>>, <<1375, 1375>>, <<1425, 1469>>, <<1471, 1471>>,
    <<1473, 1474>>, <<1476, 1477>>, <<1479, 1479>>, <<1524, 1524>>,
    <<1536, 1541>>, <<1552, 1562>>, <<1564, 1564>>, <<1600, 1600>>,
    <<1611, 1631>>, <<1648, 1648>>, <<1750, 1757>>, <<1759, 1768>>,
    <<1770, 1773>>, <<1807, 1807>>, <<1809, 1809>>, <<1840, 1866>>,
    <<1958, 1968>>, <<2027, 2037>>, <<2042, 2042>>, <<2045, 2045>>,
    <<2070, 2093>>, <<2137, 2139>>, <<2184, 2184>>, <<2192, 2193>>,
    <<2200, 2207>>, <<2249, 2306>>, <<2362, 2362>>, <<2364, 2364>>,
    <<2369, 2376>>, <<2381, 2381>>, <<2385, 2391>>, <<2402, 2403>>,
    <<2417, 2417>>, <<2433, 2433>>, <<2492, 2492>>, <<2497, 2500>>,
    <<2509, 2509>>, <<2530, 2531>>, <<2558, 2558>>, <<2561, 2562>>,
    <<2620, 2620>>, <<2625, 2626>>, <<2631, 2632>>, <<2635, 2637>>,
    <<2641, 2641>>, <<2672, 2673>>, <<2677, 2677>>, <<2689, 2690>>,
    <<2748, 2748>>, <<2753, 2757>>, <<2759, 2760>>, <<2765, 2765>>,
    <<2786, 2787>>, <<2810, 2815>>, <<2817, 2817>>, <<2876, 2876>>,
    <<2879, 2879>>, <<2881, 2884>>, <<2893, 2893>>, <<2901, 2902>>,
    <<2914, 2915>>, <<2946, 2946>>, <<3008, 3008>>, <<3021, 3021>>,
    <<3072, 3072>>, <<3076, 3076>>, <<3132, 3132>>, <<3134, 3136>>,
    <<3142, 3144>>, <<3146, 3149>>, <<3157, 3158>>, <<3170, 3171>>,
    <<3201, 3201>>, <<3260, 3260>>, <<3263, 3263>>, <<3270, 3270>>,
    <<3276, 3277>>, <<3298, 3299>>, <<3328, 3329>>, <<3387, 3388>>,
    <<3393, 3396>>, <<3405, 3405>>, <<3426, 3427>>, <<3457, 3457>>,
    <<3530, 3530>>, <<3538, 3540>>, <<3542, 3542>>, <<3633, 3633>>,
    <<3636, 3642>>, <<3654, 3662>>, <<3761, 3761>>, <<3764, 3772>>,
    <<3782, 3782>>, <<3784, 3789>>, <<3864, 3865>>, <<3893, 3893>>,
    <<3895, 3895>>, <<3897, 3897>>, <<3953, 3966>>, <<3968, 3972>>,
    <<3974, 3975>>, <<3981, 3991>>, <<3993, 4028>>, <<4038, 4038>>,
    <<4141, 4144>>, <<4146, 4151>>, <<4153, 4154>>, <<4157, 4158>>,
    <<4184, 4185>>, <<4190, 4192>>, <<4209, 4212>>, <<4226, 4226>>,
    <<4229, 4230>>, <<4237, 4237>>, <<4253, 4253>>, <<4348, 4348>>,
    <<4957, 4959>>, <<5906, 5908>>, <<5938, 5939>>, <<5970, 5971>>,
    <<6002, 6003>>, <<6068, 6069>>, <<6071, 6077>>, <<6086, 6086>>,
    <<6089, 6099>>, <<6103, 6103>>, <<6109, 6109>>, <<6155, 6159>>,
    <<6211, 6211>>, <<6277, 6278>>, <<6313, 6313>>, <<6432, 6434>>,
    <<6439, 6440>>, <<6450, 6450>>, <<6457, 6459>>, <<6679, 6680>>,
    <<6683, 6683>>, <<6742, 6742>>, <<6744, 6750>>, <<6752, 6752>>,
    <<6754, 6754>>, <<6757, 6764>>, <<6771, 6780>>, <<6783, 6783>>,
    <<6823, 6823>>, <<6832, 6862>>, <<6912, 6915>>, <<6964, 6964>>,
    <<6966, 6970>>, <<6972, 6972>>, <<6978, 6978>>, <<7019, 7027>>,
    <<7040, 7041>>, <<7074, 7077>>, <<7080, 7081>>, <<7083, 7085>>,
    <<7142, 7142>>, <<7144, 7145>>, <<7149, 7149>>, <<7151, 7153>>,
    <<7212, 7219>>, <<7222, 7223>>, <<7288, 7293>>, <<7376, 7378>>,
    <<7380, 7392>>, <<7394, 7400>>, <<7405, 7405>>, <<7412, 7412>>,
    <<7416, 7417>>, <<7468, 7530>>, <<7544, 7544>>, <<7579, 7679>>,
    <<8125, 8125>>, <<8127, 8129>>, <<8141, 8143>>, <<8157, 8159>>,
    <<8173, 8175>>, <<8189, 8190>>, <<8203, 8207>>, <<8216, 8217>>,
    <<8228, 8228>>, <<8231, 8231>>, <<8234, 8238>>, <<8288, 8292>>,
    <<8294, 8303>>, <<8305, 8305>>, <<8319, 8319>>, <<8336, 8348>>,
    <<8400, 8432>>, <<11388, 11389>>, <<11503, 11505>>, <<11631, 11631>>,
    <<11647, 11647>>, <<11744, 11775>>, <<11823, 11823>>, <<12293, 12293>>,
    <<12330, 12333>>, <<12337, 12341>>, <<12347, 12347>>, <<12441, 12446>>,
    <<12540, 12542>>, <<40981, 40981>>, <<42232, 42237>>, <<42508, 42508>>,
    <<42607, 42610>>, <<42612, 42621>>, <<42623, 42623>>, <<42652, 42655>>,
    <<42736, 42737>>, <<42752, 42785>>, <<42864, 42864>>, <<42888, 42890>>,
    <<42994, 42996>>, <<43000, 43001>>, <<43010, 43010>>, <<43014, 43014>>,
    <<43019, 43019>>, <<43045, 43046>>, <<43052, 43052>>, <<43204, 43205>>,
    <<43232, 43249>>, <<43263, 43263>>, <<43302, 43309>>, <<43335, 43345>>,
    <<43392, 43394>>, <<43443, 43443>>, <<43446, 43449>>, <<43452, 43453>>,
    <<43471, 43471>>, <<43493, 43494>>, <<43561, 43566>>, <<43569, 43570>>,
    <<43573, 43574>>, <<43587, 43587>>, <<43596, 43596>>, <<43632, 43632>>,
    <<43644, 43644>>, <<43696, 43696>>, <<43698, 43700>>, <<43703, 43704>>,
    <<43710, 43711>>, <<43713, 43713>>, <<43741, 43741>>, <<43756, 43757>>,
    <<43763, 43764>>, <<43766, 43766>>, <<43867, 43871>>, <<43881, 43883>>,
    <<44005, 44005>>, <<44008, 44008>>, <<44013, 44013>>, <<64286, 64286>>,
    <<64434, 64450>>, <<65024, 65039>>, <<65043, 65043>>, <<65056, 65071>>,
    <<65106, 65106>>, <<65109, 65109>>, <<65279, 65279>>, <<65287, 65287>>,
    <<65294, 65294>>, <<65306, 65306>>, <<65342, 65342>>, <<65344, 65344>>,
    <<65392, 65392>>, <<65438, 65439>>, <<65507, 65507>>, <<65529, 65531>>,
    <<66045, 66045>>, <<66272, 66272>>, <<66422, 66426>>, <<67456, 67461>>,
    <<67463, 67504>>, <<67506, 67514>>, <<68097, 68099>>, <<68101, 68102>>,
    <<68108, 68111>>, <<68152, 68154>>, <<68159, 68159>>, <<68325, 68326>>,
    <<68900, 68903>>, <<69291, 69292>>, <<69446, 69456>>, <<69506, 69509>>,
    <<69633, 69633>>, <<69688, 69702>>, <<69744, 69744>>, <<69747, 69748>>,
    <<69759, 69761>>, <<69811, 69814>>, <<69817, 69818>>, <<69821, 69821>>,
    <<69826, 69826>>, <<69837, 69837>>, <<69888, 69890>>, <<69927, 69931>>,
    <<69933, 69940>>, <<70003, 70003>>, <<70016, 70017>>, <<70070, 70078>>,
    <<70089, 70092>>, <<70095, 70095>>, <<70191, 70193>>, <<70196, 70196>>,
    <<70198, 70199>>, <<70206, 70206>>, <<70367, 70367>>, <<70371, 70378>>,
    <<70400, 70401>>, <<70459, 70460>>, <<70464, 70464>>, <<70502, 70508>>,
    <<70512, 70516>>, <<70712, 70719>>, <<70722, 70724>>, <<70726, 70726>>,
    <<70750, 70750>>, <<70835, 70840>>, <<70842, 70842>>, <<70847, 70848>>,
    <<70850, 70851>>, <<71090, 71093>>, <<71100, 71101>>, <<71103, 71104>>,
    <<71132, 71133>>, <<71219, 71226>>, <<71229, 71229>>, <<71231, 71232>>,
    <<71339, 71339>>, <<71341, 71341>>, <<71344, 71349>>, <<71351, 71351>>,
    <<71453, 71455>>, <<71458, 71461>>, <<71463, 71467>>, <<71727, 71735>>,
    <<71737, 71738>>, <<71995, 71996>>, <<71998, 71998>>, <<72003, 72003>>,
    <<72148, 72151>>, <<72154, 72155>>, <<72160, 72160>>, <<72193, 72202>>,
    <<72243, 72248>>, <<72251, 72254>>, <<72263, 72263>>, <<72273, 72278>>,
    <<72281, 72283>>, <<72330, 72342>>, <<72344, 72345>>, <<72752, 72758>>,
    <<72760, 72765>>, <<72767, 72767>>, <<72850, 72871>>, <<72874, 72880>>,
    <<72882, 72883>>, <<72885, 72886>>, <<73009, 73014>>, <<73018, 73018>>,
    <<73020, 73021>>, <<73023, 73029>>, <<73031, 73031>>, <<73104, 73105>>,
    <<73109, 73109>>, <<73111, 73111>>, <<73459, 73460>>, <<78896, 78904>>,
    <<92912, 92916>>, <<92976, 92982>>, <<92992, 92995>>, <<94031, 94031>>,
    <<94095, 94111>>, <<94176, 94177>>, <<94179, 94180>>, <<110576, 110579>>,
    <<110581, 110587>>, <<110589, 110590>>, <<113821, 113822>>,
    <<113824, 113827>>, <<118528, 118573>>, <<118576, 118598>>,
    <<119143, 119145>>, <<119155, 119170>>, <<119173, 119179>>,
    <<119210, 119213>>, <<119362, 119364>>, <<121344, 121398>>,
    <<121403, 121452>>, <<121461, 121461>>, <<121476, 121476>>,
    <<121499, 121503>>, <<121505, 121519>>, <<122880, 122886>>,
    <<122888, 122904>>, <<122907, 122913>>, <<122915, 122916>>,
    <<122918, 122922>>, <<123184, 123197>>, <<123566, 123566>>,
    <<123628, 123631>>, <<125136, 125142>>, <<125252, 125259>>,
    <<127995, 127999>>, <<917505, 917505>>, <<917536, 917631>>,
    <<917760, 917999>>}

\* The cased characters among those that are not skipped, as runs
\* <<first, last>>.
CasedRuns ==
   {<<65, 90>>, <<97, 122>>, <<170, 170>>, <<181, 181>>, <<186, 186>>,
    <<192, 214>>, <<216, 246>>, <<248, 442>>, <<444, 447>>, <<452, 659>>,
    <<661, 687>>, <<880, 883>>, <<886, 887>>, <<891, 893>>, <<895, 895>>,
    <<902, 902>>, <<904, 906>>, <<908, 908>>, <<910, 929>>, <<931, 1013>>,
    <<1015, 1153>>, <<1162, 1327>>, <<1329, 1366>>, <<1376, 1416>>,
    <<4256, 4293>>, <<4295, 4295>>, <<4301, 4301>>, <<4304, 4346>>,
    <<4349, 4351>>, <<5024, 5109>>, <<5112, 5117>>, <<7296, 7304>>,
    <<7312, 7354>>, <<7357, 7359>>, <<7424, 7467>>, <<7531, 7543>>,
    <<7545, 7578>>, <<7680, 7957>>, <<7960, 7965>>, <<7968, 8005>>,
    <<8008, 8013>>, <<8016, 8023>>, <<8025, 8025>>, <<8027, 8027>>,
    <<8029, 8029>>, <<8031, 8061>>, <<8064, 8116>>, <<8118, 8124>>,
    <<8126, 8126>>, <<8130, 8132>>, <<8134, 8140>>, <<8144, 8147>>,
    <<8150, 8155>>, <<8160, 8172>>, <<8178, 8180>>, <<8182, 8188>>,
    <<8450, 8450>>, <<8455, 8455>>, <<8458, 8467>>, <<8469, 8469>>,
    <<8473, 8477>>, <<8484, 8484>>, <<8486, 8486>>, <<8488, 8488>>,
    <<8490, 8493>>, <<8495, 8500>>, <<8505, 8505>>, <<8508, 8511>>,
    <<8517, 8521>>, <<8526, 8526>>, <<8544, 8575>>, <<8579, 8580>>,
    <<9398, 9449>>, <<11264, 11387>>, <<11390, 11492>>, <<11499, 11502>>,
    <<11506, 11507>>, <<11520, 11557>>, <<11559, 11559>>, <<11565, 11565>>,
    <<42560, 42605>>, <<42624, 42651>>, <<42786, 42863>>, <<42865, 42887>>,
    <<42891, 42894>>, <<42896, 42954>>, <<42960, 42961>>, <<42963, 42963>>,
    <<42965, 42969>>, <<42997, 42998>>, <<43002, 43002>>, <<43824, 43866>>,
    <<43872, 43880>>, <<43888, 43967>>, <<64256, 64262>>, <<64275, 64279>>,
    <<65313, 65338>>, <<65345, 65370>>, <<66560, 66639>>, <<66736, 66771>>,
    <<66776, 66811>>, <<66928, 66938>>, <<66940, 66954>>, <<66956, 66962>>,
    <<66964, 66965>>, <<66967, 66977>>, <<66979, 66993>>, <<66995, 67001>>,
    <<67003, 67004>>, <<68736, 68786>>, <<68800, 68850>>, <<71840, 71903>>,
    <<93760, 93823>>, <<119808, 119892>>, <<119894, 119964>>,
    <<119966, 119967>>, <<119970, 119970>>, <<119973, 119974>>,
    <<119977, 119980>>, <<119982, 119993>>, <<119995, 119995>>,
    <<119997, 120003>>, <<120005, 120069>>, <<120071, 120074>>,
    <<120077, 120084>>, <<120086, 120092>>, <<120094, 120121>>,
    <<120123, 120126>>, <<120128, 120132>>, <<120134, 120134>>,
    <<120138, 120144>>, <<120146, 120485>>, <<120488, 120512>>,
    <<120514, 120538>>, <<120540, 120570>>, <<120572, 120596>>,
    <<120598, 120628>>, <<120630, 120654>>, <<120656, 120686>>,
    <<120688, 120712>>, <<120714, 120744>>, <<120746, 120770>>,
    <<120772, 120779>>, <<122624, 122633>>, <<122635, 122654>>,
    <<125184, 125251>>, <<127280, 127305>>, <<127312, 127337>>,
    <<127344, 127369>>}

CaseIgnorable(c) == \E r \in CaseIgnorableRuns : r[1] <= c /\ c <= r[2]
Cased(c) == \E r \in CasedRuns : r[1] <= c /\ c <= r[2]

\* c.lower() of one character, a string: U+0130 gives two characters.
LowerChar(c) ==
    IF c < 128 THEN IF c >= 65 /\ c <= 90 THEN <<c + 32>> ELSE <<c>>
    ELSE IF c = 304 THEN <<105, 775>>
    ELSE LET runs == {r \in LowerRuns :
                        r[1] <= c /\ c <= r[2] /\ (c - r[1]) % r[3] = 0}
         IN  IF runs = {} THEN <<c>> ELSE <<c + (CHOOSE r \in runs : TRUE)[4]>>

\* A capital sigma at s[i] is final: the nearest character before it that
\* is not skipped is cased, and the nearest one after it is not.
FinalSigma(s, i) ==
    LET before == {j \in 1..(i - 1) : ~CaseIgnorable(s[j])}
        after == {j \in (i + 1)..Len(s) : ~CaseIgnorable(s[j])}
    IN  /\ before # {}
        /\ Cased(s[CHOOSE j \in before : \A k \in before : j >= k])
        /\ \/ after = {}
           \/ ~Cased(s[CHOOSE j \in after : \A k \in after : j <= k])

\* s[lo..hi] in lower case, character by character.
RECURSIVE LowerRange(_, _, _)
LowerRange(s, lo, hi) ==
    IF lo > hi THEN <<>>
    ELSE IF lo = hi
    THEN IF s[lo] = 931 /\ FinalSigma(s, lo) THEN <<962>> ELSE LowerChar(s[lo])
    ELSE LowerRange(s, lo, (lo + hi) \div 2)
         \o LowerRange(s, (lo + hi) \div 2 + 1, hi)

\* s.lower()
Lower(str) ==
    CHOOSE lowered \in {LowerRange(s, 1, Len(s)) : s \in {str}} : TRUE

\* s.split(sep) for a non-empty separator: the list of pieces.
RECURSIVE Split(_, _)
Split(s, sep) ==
    LET i == Find(s, sep)
    IN  IF i = -1 THEN <<s>>
        ELSE <<SubSeq(s, 1, i)>>
             \o CHOOSE pieces \in
                   {Split(rest, sep) : rest \in {SliceFrom(s, i + Len(sep))}} : TRUE

\* s.strip(chars): drop leading and trailing characters that are in chars.
Strip(s, chars) ==
    CHOOSE stripped \in
        {IF keep = {} THEN <<>>
         ELSE SubSeq(s, CHOOSE i \in keep : \A j \in keep : i <= j,
                        CHOOSE i \in keep : \A j \in keep : i >= j) :
         keep \in {{i \in 1..Len(s) : s[i] \notin chars}}} : TRUE

\* s.partition(sep): <<before, sep, after>>, or <<s, "", "">> without sep.
Partition(s, sep) ==
    LET i == Find(s, sep)
    IN  IF i = -1 THEN <<s, <<>>, <<>>>>
        ELSE <<SubSeq(s, 1, i), sep, SliceFrom(s, i + Len(sep))>>

\* The length of the UTF-8 sequence that starts at b[i], 0 when the bytes
\* there are no valid sequence (a stray or missing continuation byte, an
\* overlong form, a surrogate, a code point above U+10FFFF).
Utf8Length(b, i) ==
    LET Cont(k, lo, hi) == i + k <= Len(b) /\ b[i + k] >= lo /\ b[i + k] <= hi
        b1 == b[i]
    IN  IF b1 < 128 THEN 1
        ELSE IF b1 >= 194 /\ b1 <= 223
        THEN IF Cont(1, 128, 191) THEN 2 ELSE 0
        ELSE IF b1 >= 224 /\ b1 <= 239
        THEN IF /\ Cont(1, IF b1 = 224 THEN 160 ELSE 128,
                           IF b1 = 237 THEN 159 ELSE 191)
                /\ Cont(2, 128, 191)
             THEN 3 ELSE 0
        ELSE IF b1 >= 240 /\ b1 <= 244
        THEN IF /\ Cont(1, IF b1 = 240 THEN 144 ELSE 128,
                           IF b1 = 244 THEN 143 ELSE 191)
                /\ Cont(2, 128, 191)
                /\ Cont(3, 128, 191)
             THEN 4 ELSE 0
        ELSE 0

\* The code point of the UTF-8 sequence of n bytes that starts at b[i].
Utf8CodePoint(b, i, n) ==
    IF n = 1 THEN b[i]
    ELSE IF n = 2 THEN (b[i] - 192) * 64 + (b[i + 1] - 128)
    ELSE IF n = 3
    THEN (b[i] - 224) * 4096 + (b[i + 1] - 128) * 64 + (b[i + 2] - 128)
    ELSE (b[i] - 240) * 262144 + (b[i + 1] - 128) * 4096
         + (b[i + 2] - 128) * 64 + (b[i + 3] - 128)

\* b[i:] decoded: <<TRUE, characters>>, <<FALSE, "">> for UnicodeDecodeError.
RECURSIVE Utf8From(_, _)
Utf8From(b, i) ==
    IF i > Len(b) THEN <<TRUE, <<>>>>
    ELSE CHOOSE decoded \in
           {IF n = 0 THEN <<FALSE, <<>>>>
            ELSE CHOOSE joined \in
                   {IF rest[1]
                    THEN <<TRUE, <<Utf8CodePoint(b, i, n)>> \o rest[2]>>
                    ELSE rest :
                    rest \in {Utf8From(b, j) : j \in {i + n}}} : TRUE :
            n \in {Utf8Length(b, i)}} : TRUE

\* bytes.decode("utf-8"): <<TRUE, text>>, or <<FALSE, "">> where the code
\* raises UnicodeDecodeError.
Decode(bytes) ==
    CHOOSE text \in {Utf8From(b, 1) : b \in {bytes}} : TRUE

----------------------------------------------------------------------------
(* Wire constants of MultipartParser.                                      *)

CRLF == <<13, 10>>
HEADER_DELIMITER == <<13, 10, 13, 10>>
END_DELIMITER == <<45, 45, 13, 10>>
END_DELIMITER_LENGTH == Len(END_DELIMITER)

\* str.strip() without argument strips the characters c with c.isspace().
Whitespace ==
    {9, 10, 11, 12, 13, 28, 29, 30, 31, 32, 133, 160, 5760}
    \cup (8192..8202) \cup {8232, 8233, 8239, 8287, 12288}

\* "content-disposition", "filename", ";", "=", '"'
ContentDispositionKey == <<99, 111, 110, 116, 101, 110, 116, 45, 100, 105,
                           115, 112, 111, 115, 105, 116, 105, 111, 110>>
FilenameKey == <<102, 105, 108, 101, 110, 97, 109, 101>>
Semicolon == <<59>>
EqualsSign == <<61>>
Quote == 34

\* The boundary string the parser is constructed with ("X").
BoundaryStr == <<88>>

\* __init__: _start_boundary, _boundary, _boundary_length
_start_boundary == <<45, 45>> \o BoundaryStr
_boundary == CRLF \o _start_boundary
_boundary_length == Len(_boundary)

----------------------------------------------------------------------------
(* _parse_filename_from_header                                             *)

\* One parameter of a Content-Disposition line: <<TRUE, filename>> when its
\* key is "filename", <<FALSE, "">> otherwise.
ParamFilename(param) ==
    CHOOSE found \in
        {IF Lower(kv[1]) = FilenameKey
         THEN <<TRUE, Strip(kv[3], {Quote})>>
         ELSE <<FALSE, <<>>>> :
         kv \in {Partition(stripped, EqualsSign) :
                    stripped \in {Strip(param, Whitespace)}}} : TRUE

\* The inner loop: the first parameter that is a filename.
RECURSIVE FirstFilenameParam(_)
FirstFilenameParam(params) ==
    IF params = <<>> THEN <<FALSE, <<>>>>
    ELSE IF ParamFilename(Head(params))[1] THEN ParamFilename(Head(params))
    ELSE CHOOSE found \in {FirstFilenameParam(rest) : rest \in {Tail(params)}} : TRUE

\* The filename of one header line, if the line is a Content-Disposition
\* line carrying one.
LineFilename(line) ==
    IF StartsWith(Lower(line), ContentDispositionKey)
    THEN CHOOSE found \in
           {FirstFilenameParam(Tail(params)) : params \in {Split(line, Semicolon)}} : TRUE
    ELSE <<FALSE, <<>>>>

\* The outer loop over the header's lines.
RECURSIVE FirstFilenameLine(_)
FirstFilenameLine(lines) ==
    IF lines = <<>> THEN <<FALSE, <<>>>>
    ELSE IF LineFilename(Head(lines))[1] THEN LineFilename(Head(lines))
    ELSE CHOOSE found \in {FirstFilenameLine(rest) : rest \in {Tail(lines)}} : TRUE

\* <<TRUE, filename>>, or <<FALSE, "">> where the code raises ValueError.
_parse_filename_from_header(header) ==
    CHOOSE found \in {FirstFilenameLine(lines) : lines \in {Split(header, CRLF)}} : TRUE

----------------------------------------------------------------------------
(* The streams the chunk source delivers.                                  *)

\* 'Content-Disposition:;filename="<name>"'
HeaderLine(name) ==
    <<67, 111, 110, 116, 101, 110, 116, 45, 68, 105, 115, 112, 111, 115, 105,
      116, 105, 111, 110, 58, 59, 102, 105, 108, 101, 110, 97, 109, 101, 61>>
    \o <<Quote>> \o name \o <<Quote>>

\* A part <<filename, body>> on the wire, up to and including the boundary
\* token that ends it.
PartBytes(part) ==
    CRLF \o HeaderLine(part[1]) \o HEADER_DELIMITER \o part[2] \o _boundary

RECURSIVE PartsBytes(_)
PartsBytes(parts) ==
    IF parts = <<>> THEN <<>>
    ELSE PartBytes(Head(parts)) \o PartsBytes(Tail(parts))

\* A well-formed multipart stream holding the given parts.
WellFormed(parts) == _start_boundary \o PartsBytes(parts) \o END_DELIMITER

\* a / hey     and    a / hi , b / yo
Parts1 == << <<(<<97>>), <<104, 101, 121>>>> >>
Parts2 == << <<(<<97>>), <<104, 105>>>>, <<(<<98>>), <<121, 111>>>> >>
PartLists == {Parts1, Parts2}

WellFormedStreams == {WellFormed(p) : p \in PartLists}

\* The parts a well-formed stream of the model holds.
PartsOf(s) == CHOOSE p \in PartLists : WellFormed(p) = s

\* A well-formed stream followed by extra bytes ("Z", or one more CRLF).
TrailingStreams == {s \o x : s \in WellFormedStreams, x \in {<<90>>, CRLF}}

\* Proper prefixes of the well-formed streams: the source ends inside the
\* start boundary, a header, a body, a boundary token or the end-token.
PrefixLengths(s) ==
    {0, 2, 4, 20, Len(s) - 12, Len(s) - 10, Len(s) - 7, Len(s) - 3, Len(s) - 1}
PrefixStreams ==
    UNION {{SubSeq(s, 1, n) : n \in PrefixLengths(s)} : s \in WellFormedStreams}

\* Streams that do not begin with the start boundary.
NoStartStreams ==
    {SliceFrom(s, 1) : s \in WellFormedStreams}
    \cup {<<90>> \o s : s \in WellFormedStreams}

\* Header blocks without a filename: no Content-Disposition line ("H"),
\* and a Content-Disposition line without parameters.
NamelessHeaders == {<<72>>, SubSeq(HeaderLine(<<>>), 1, 20)}

\* A nameless part with body "no", followed by the parts of a well-formed
\* stream.
NoFilenameStream(header, parts) ==
    _start_boundary \o CRLF \o header \o HEADER_DELIMITER \o <<110, 111>>
    \o _boundary \o PartsBytes(parts) \o END_DELIMITER
NoFilenameStreams == {NoFilenameStream(h, Parts1) : h \in NamelessHeaders}

\* The stream without parts: the start boundary and the end-token.
ZeroPartStream == _start_boundary \o END_DELIMITER

\* One part "hey" whose filename is not ASCII: the two bytes of U+00E9,
\* and the byte 0xFF, which no UTF-8 text holds.
Utf8Streams ==
    {WellFormed(<< <<name, <<104, 101, 121>>>> >>) : name \in {<<195, 169>>, <<255>>}}

Streams ==
    WellFormedStreams \cup TrailingStreams \cup PrefixStreams
    \cup NoStartStreams \cup NoFilenameStreams \cup {ZeroPartStream}
    \cup Utf8Streams

----------------------------------------------------------------------------
(* MultipartParser, driven by a consumer that drains each body before it   *)
(* asks for the next part.  The chunk source hands out stream in chunks of *)
(* any non-empty length.                                                   *)

\* The chunk source hands out at most MaxChunks chunks.
MaxChunks == 4

\* The n bytes the source hands out from position p.
ChunkAt(p, n) == SubSeq(stream, p + 1, p + n)
Chunk(n) == ChunkAt(pos, n)

\* The chunk lengths the source may hand out at position p after k chunks
\* (none: it is exhausted): every chunk is at least minchunk long.
ChunkLengthsAt(p, k) ==
    {n \in 1..(Len(stream) - p) :
        /\ n >= minchunk
        /\ Len(stream) - p - n = 0 \/ Len(stream) - p - n >= minchunk
        /\ k + 1 < MaxChunks \/ n = Len(stream) - p}
ChunkLengths == ChunkLengthsAt(pos, pulls)

Exhausted == pos = Len(stream)

\* (variant: the error is swallowed and the caller of the read goes on)
EndOfStreamSwallowed(at) ==
    /\ Exhausted
    /\ eos' = eos + 1
    /\ UNCHANGED <<stream, minchunk, pos, pulls, out, dzi, retry, watch, pc,
                   err>>

\* _read_next_chunk_from_stream on an exhausted source: StopIteration is
\* turned into RuntimeError("End of stream reached").  The exception
\* finishes the generator it is raised in: parts() (at = "error"), or a body
\* generator (at = "body_error"), and then parts() stays suspended at its
\* yield.
EndOfStreamError(at) ==
    /\ Exhausted
    /\ eos' = eos + 1
    /\ pc' = at
    /\ err' = "EndOfStream"
    /\ UNCHANGED <<stream, minchunk, pos, pulls, out, dzi, retry, watch>>

\* The bookkeeping of one successful pull of n bytes.
Pulled(n) ==
    /\ pos' = pos + n
    /\ pulls' = pulls + 1

\* _read_first_boundary_start: the test on the first chunk, and its result.
\* (variant: the start boundary anywhere in the first chunk)
FirstChunkOkAnywhere(chunk) == Find(chunk, _start_boundary) # -1
FirstChunkOk(chunk) == StartsWith(chunk, _start_boundary)
FirstBuffer(chunk) == SliceFrom(chunk, _boundary_length)

_read_first_boundary_start ==
    /\ pc = "first"
    /\ resumed' = resumed
    /\ \/ EndOfStreamError("error") /\ UNCHANGED <<_buffer, next_chunk>>
       \/ \E n \in ChunkLengths :
            /\ Pulled(n)
            /\ IF FirstChunkOk(Chunk(n))
               THEN /\ _buffer' = FirstBuffer(Chunk(n))
                    /\ pc' = "check"
                    /\ err' = err
               ELSE /\ _buffer' = _buffer
                    /\ pc' = "error"
                    /\ err' = "NoStartBoundary"
            /\ UNCHANGED <<stream, minchunk, next_chunk, eos, out, dzi, retry, watch>>

\* _check_for_end_of_stream: the tests of lines 79-82.
IsEndDelimiter(buf) == StartsWith(buf, END_DELIMITER)
EndLengthOk(buf) == Len(buf) = END_DELIMITER_LENGTH

\* Lines 79-89: buf is the buffer after the optional read of lines 76-78;

\* p, k: the source position and pull count after that read.
EndTest(buf, p, k) ==
    /\ _buffer' = buf
    /\ IF ~IsEndDelimiter(buf)
       THEN /\ pc' = "header"
            /\ err' = err
            /\ pos' = p /\ pulls' = k /\ eos' = eos
       ELSE IF ~EndLengthOk(buf)
       THEN /\ pc' = "error"
            /\ err' = "EndDelimiterNotAtEnd"
            /\ pos' = p /\ pulls' = k /\ eos' = eos
       ELSE IF p < Len(stream)
       THEN \* next(self._chunks, None) returns a chunk
            /\ pc' = "error"
            /\ err' = "EndDelimiterNotAtEnd"
            /\ \E m \in ChunkLengthsAt(p, k) : pos' = p + m
            /\ pulls' = k + 1
            /\ eos' = eos
       ELSE \* next(self._chunks, None) returns None
            /\ pc' = "done"
            /\ err' = err
            /\ pos' = p /\ pulls' = k
            /\ eos' = eos + 1

\* It runs when the consumer asks parts() for the next part: after a body
\* that has ended, and also after a body whose generator raised the
\* end-of-stream error, since parts() is still suspended at its yield.
_check_for_end_of_stream ==
    /\ \/ pc = "check" /\ resumed' = resumed
       \/ pc = "body_error" /\ resumed' = TRUE
    /\ IF Len(_buffer) < END_DELIMITER_LENGTH
       THEN \/ EndOfStreamError("error") /\ UNCHANGED <<_buffer, next_chunk>>
            \/ \E n \in ChunkLengths :
                 /\ EndTest(_buffer \o Chunk(n), pos + n, pulls + 1)
                 /\ UNCHANGED <<stream, minchunk, next_chunk, out, dzi, retry, watch>>
       ELSE /\ EndTest(_buffer, pos, pulls)
            /\ UNCHANGED <<stream, minchunk, next_chunk, out, dzi, retry, watch>>

\* _parse_part_header: one iteration of its search loop, then lines 107-110.
header_end_index(buf) == Find(buf, HEADER_DELIMITER)
HeaderOf(buf) == Decode(SliceTo(buf, header_end_index(buf)))
AfterHeader(buf) == SliceFrom(buf, header_end_index(buf) + Len(HEADER_DELIMITER))

_parse_part_header ==
    /\ pc = "header"
    /\ resumed' = resumed
    /\ IF header_end_index(_buffer) = -1
       THEN \/ EndOfStreamError("error") /\ UNCHANGED <<_buffer, next_chunk>>
            \/ \E n \in ChunkLengths :
                 /\ Pulled(n)
                 /\ _buffer' = _buffer \o Chunk(n)
                 /\ UNCHANGED <<stream, minchunk, next_chunk, eos, pc, out, err, dzi, retry, watch>>
       ELSE /\ _buffer' = IF HeaderOf(_buffer)[1] THEN AfterHeader(_buffer)
                           ELSE _buffer
            /\ \E header \in {HeaderOf(_buffer)} :
                 \E filename \in {_parse_filename_from_header(header[2])} :
                    IF ~header[1]
                    THEN /\ out' = out
                         /\ pc' = "error"
                         /\ err' = "UnicodeDecodeError"
                    ELSE IF filename[1]
                    THEN /\ out' = Append(out, <<filename[2], <<>>>>)
                         /\ pc' = "body"
                         /\ err' = err
                    ELSE /\ out' = out
                         /\ pc' = "error"
                         /\ err' = "FilenameNotFound"
            /\ UNCHANGED <<stream, minchunk, next_chunk, pos, pulls, eos, dzi, retry, watch>>

\* _parse_part_chunks: the search for the boundary in the buffer, and in
\* the join of the buffer's end with the next chunk's start.
end_index(buf) == Find(buf, _boundary)
first_chunk_boundary(buf) == SliceFrom(buf, -_boundary_length + 1)
second_chunk_boundary(chunk) == SliceTo(chunk, _boundary_length - 1)
end_index_in_chunk_boundary(buf, chunk) ==
    Find(first_chunk_boundary(buf) \o second_chunk_boundary(chunk), _boundary)
BoundaryBetweenChunks(buf, chunk) == end_index_in_chunk_boundary(buf, chunk) > 0
BetweenFragment(buf, chunk) ==
    SliceTo(buf, -_boundary_length + 1 + end_index_in_chunk_boundary(buf, chunk))
BetweenRest(buf, chunk) ==
    SliceTo(chunk, _boundary_length - 1 + end_index_in_chunk_boundary(buf, chunk))
LastFragment(buf) == SliceTo(buf, end_index(buf))
AfterBoundary(buf) == SliceFrom(buf, end_index(buf) + _boundary_length)

\* (variant: the pulled chunk is added to the buffer)
AccumulatedBuffer(buf, chunk) == buf \o chunk

\* self._buffer = next_chunk
NextBodyBuffer(buf, chunk) == chunk

\* The consumer appends a yielded fragment to the body of the part it holds.
Yield(frag) == out' = [out EXCEPT ![Len(out)][2] = @ \o frag]

\* _parse_part_chunks from its loop test on, with buf the buffer, up to its
\* next yield: the consumer takes the fragment while the generator is
\* suspended, the assignment after the yield not yet made.
RunToYield(buf) ==
    IF end_index(buf) # -1
    THEN /\ Yield(LastFragment(buf))
         /\ _buffer' = buf
         /\ pc' = "yield_last"
         /\ UNCHANGED <<stream, minchunk, next_chunk, pos, pulls, eos, err, dzi,
                        retry, watch>>
    ELSE \/ EndOfStreamError("body_error") /\ _buffer' = buf /\ next_chunk' = <<>>
         \/ \E n \in ChunkLengths :
              /\ Pulled(n)
              /\ next_chunk' = Chunk(n)
              /\ _buffer' = buf
              /\ IF BoundaryBetweenChunks(buf, Chunk(n))
                 THEN /\ Yield(BetweenFragment(buf, Chunk(n)))
                      /\ pc' = "yield_between"
                 ELSE /\ Yield(buf)
                      /\ pc' = "yield_chunk"
              /\ UNCHANGED <<stream, minchunk, eos, err, dzi, retry, watch>>

\* The generator ends after the assignment that follows its last yield;
\* the consumer asks parts() for the next part.
ReturnWith(buf) ==
    /\ _buffer' = buf
    /\ next_chunk' = <<>>
    /\ pc' = "check"
    /\ UNCHANGED <<stream, minchunk, pos, pulls, eos, out, err, dzi, retry, watch>>

\* One next() of the consumer on the body generator: the first one runs it
\* from its start, a later one resumes it after the yield it is suspended
\* at.
_parse_part_chunks ==
    /\ resumed' = resumed
    /\ \/ /\ pc = "body"
          /\ RunToYield(_buffer)
       \/ /\ pc = "yield_chunk"
          /\ RunToYield(NextBodyBuffer(_buffer, next_chunk))
       \/ /\ pc = "yield_between"
          /\ ReturnWith(BetweenRest(_buffer, next_chunk))
       \/ /\ pc = "yield_last"
          /\ ReturnWith(AfterBoundary(_buffer))

\* The consumer carries on after an error raised in the frame of parts()
\* with next() on the parts generator: the exception has finished the
\* generator, which delivers nothing more (StopIteration).
ResumeAfterError ==
    /\ pc = "error"
    /\ pc' = "closed"
    /\ UNCHANGED <<stream, minchunk, next_chunk, pos, pulls, eos, _buffer, out,
                   err, resumed, dzi, retry, watch>>

DziIdle == [op |-> "none"]

\* No request is under way; no watch worker has been started.
RetryIdle == [pc |-> "unused"]
WatchIdle == [wpc |-> <<>>]

Init ==
    /\ stream \in Streams
    /\ minchunk = 1
    /\ pos = 0
    /\ pulls = 0
    /\ eos = 0
    /\ _buffer = <<>>
    /\ next_chunk = <<>>
    /\ pc = "first"
    /\ out = <<>>
    /\ err = "none"
    /\ resumed = FALSE
    /\ dzi = DziIdle
    /\ retry = RetryIdle
    /\ watch = WatchIdle

Next ==
    \/ _read_first_boundary_start
    \/ _check_for_end_of_stream
    \/ _parse_part_header
    \/ _parse_part_chunks
    \/ ResumeAfterError

Spec == Init /\ [][Next]_vars

\* The consumer keeps driving the parser as long as it can.
SpecLive == Init /\ [][Next]_vars /\ WF_vars(Next)

\* The parser's documented precondition: "Chunk size must be equal or larger
\* than the boundary length".
InitLong ==
    /\ stream \in Streams
    /\ minchunk = _boundary_length
    /\ pos = 0
    /\ pulls = 0
    /\ eos = 0
    /\ _buffer = <<>>
    /\ next_chunk = <<>>
    /\ pc = "first"
    /\ out = <<>>
    /\ err = "none"
    /\ resumed = FALSE
    /\ dzi = DziIdle
    /\ retry = RetryIdle
    /\ watch = WatchIdle

SpecLong == InitLong /\ [][Next]_vars

----------------------------------------------------------------------------
(* dzidesc.py: DziDescription, DziLevel, DziTile.  A DziDescription is the *)
(* record [width, height, tile_size, tile_overlap]; sizes are integers     *)
(* small enough for the float arithmetic of the code to be exact.          *)

RECURSIVE Pow2(_)
Pow2(k) == IF k <= 0 THEN 1 ELSE 2 * Pow2(k - 1)

\* int(math.ceil(math.log2(x))) for an integer x >= 1
RECURSIVE CeilLog2(_)
CeilLog2(x) == IF x <= 1 THEN 0 ELSE 1 + CeilLog2((x + 1) \div 2)

\* (variant: the logarithm rounded down)
RECURSIVE FloorLog2(_)
FloorLog2(x) == IF x <= 1 THEN 0 ELSE 1 + FloorLog2(x \div 2)
dzilevel_at_size_floor(width, height) == FloorLog2(Max2(width, height))

dzilevel_at_size(width, height) == CeilLog2(Max2(width, height))

DziDescription_baselevel(d) == dzilevel_at_size(d.width, d.height)
DziDescription_maxlevel(d) == DziDescription_baselevel(d)

\* math.floor(x * level_scale()), level_scale() = 1.0 / 2.0**(max_level - level)
ScaledFloor(x, level, max_level) ==
    IF level <= max_level
    THEN x \div Pow2(max_level - level)
    ELSE x * Pow2(level - max_level)

\* int(math.ceil((x * 1.0) / tile_size))
CeilDiv(x, tile_size) == (x + tile_size - 1) \div tile_size

DziLevel_width(parent, level) ==
    Max2(1, ScaledFloor(parent.width, level, DziDescription_baselevel(parent)))
DziLevel_height(parent, level) ==
    Max2(1, ScaledFloor(parent.height, level, DziDescription_baselevel(parent)))
DziLevel_cols(parent, level) ==
    CeilDiv(DziLevel_width(parent, level), parent.tile_size)
DziLevel_rows(parent, level) ==
    CeilDiv(DziLevel_height(parent, level), parent.tile_size)

\* DziLevel.__init__: no test on level.
DziLevel(parent, level) ==
    [parent |-> parent, level |-> level,
     n_cols |-> DziLevel_cols(parent, level),
     n_rows |-> DziLevel_rows(parent, level)]

\* The outcome of a call: a value, or the exception raised.
Returns(v) == [ok |-> TRUE, value |-> v]
Raises(e) == [ok |-> FALSE, error |-> e]

DziDescription_level(d, level) == Returns(DziLevel(d, level))

\* [self.level(x) for x in range(2, self.maxlevel() + 1)]
DziDescription_levels(d) ==
    [i \in 1..(DziDescription_maxlevel(d) - 1) |-> DziLevel(d, i + 1)]

WideEnough(lv, width) == DziLevel_width(lv.parent, lv.level) >= width

DziDescription_level_approx_width(d, width) ==
    IF width >= d.width
    THEN DziDescription_level(d, DziDescription_baselevel(d))
    ELSE LET found == SelectSeq(DziDescription_levels(d),
                                LAMBDA lv : WideEnough(lv, width))
         IN  IF found = <<>> THEN Raises("StopIteration")
             ELSE Returns(Head(found))

\* geometry.py: Point, Rect, Point.clip
Point(x, y) == [x |-> x, y |-> y]
Rect(pt1, pt2) ==
    [left |-> Min2(pt1.x, pt2.x), top |-> Min2(pt1.y, pt2.y),
     right |-> Max2(pt1.x, pt2.x), bottom |-> Max2(pt1.y, pt2.y)]
Rect_width(r) == r.right - r.left
Rect_height(r) == r.bottom - r.top
Point_clip(p, rect) ==
    Point(Max2(Min2(p.x, rect.right), rect.left),
          Max2(Min2(p.y, rect.bottom), rect.top))

\* (variant: a remainder of 0 is kept)
PlainRemainder(size, tile_size) == size % tile_size

\* remainder = size % tile_size; if remainder == 0: remainder = tile_size
Remainder(size, tile_size) ==
    IF size % tile_size = 0 THEN tile_size ELSE size % tile_size

\* (variant: the corner is not clipped to the tile)
BottomLeftUnclipped(tile_size, l, t, width, height) ==
    Point(tile_size + l, tile_size + t)

\* bottom_left = Point(tile_size+l, tile_size+t).clip(Rect((0,0), (width, height)))
BottomLeft(tile_size, l, t, width, height) ==
    Point_clip(Point(tile_size + l, tile_size + t),
               Rect(Point(0, 0), Point(width, height)))

\* DziTile.__init__
DziTile(level, col, row) ==
    IF col >= level.n_cols THEN Raises("column out of bounds")
    ELSE IF row >= level.n_rows THEN Raises("row out of bounds")
    ELSE
    LET overlap == level.parent.tile_overlap
        l == IF overlap > 0 /\ col = 0 THEN 0 ELSE overlap
        r == IF overlap > 0 /\ col = level.n_cols - 1 THEN 0 ELSE overlap
        t == IF overlap > 0 /\ row = 0 THEN 0 ELSE overlap
        b == IF overlap > 0 /\ row = level.n_rows - 1 THEN 0 ELSE overlap
        tile_size == level.parent.tile_size
        width ==
            IF col = level.n_cols - 1
            THEN Remainder(DziLevel_width(level.parent, level.level), tile_size)
                 + l + r
            ELSE tile_size + l + r
        height ==
            IF row = level.n_rows - 1
            THEN Remainder(DziLevel_height(level.parent, level.level), tile_size)
                 + t + b
            ELSE tile_size + t + b
    IN  Returns([level |-> level.level, col |-> col, row |-> row,
                 overlap |-> <<t, l, r, b>>,
                 width |-> width, height |-> height,
                 top_left |-> Point(col * tile_size, row * tile_size),
                 crop |-> Rect(Point(l, t),
                               BottomLeft(tile_size, l, t, width, height))])

DziLevel_tile(level, col, row) == DziTile(level, col, row)

\* DziLevel.tiles(): every tile of the level.
DziLevel_tiles(level) ==
    {DziLevel_tile(level, c, r).value :
        c \in 0..(level.n_cols - 1), r \in 0..(level.n_rows - 1)}

\* for c in range(..): for r in range(..): the <<c, r>> of the i-th tile
\* yielded, of nc columns and nr rows
ColumnMajor(i, nc, nr) == <<(i - 1) \div nr, (i - 1) % nr>>

\* for r in range(..): for c in range(..): the offsets <<c, r>> of the i-th
\* tile yielded, of nc columns and nr rows
RowMajor(i, nc, nr) == <<(i - 1) % nc, (i - 1) \div nc>>

\* DziLevel.tiles_within: the tiles the generator yields, in order (rows
\* outside, columns inside); x, y, width, height are integers.
DziLevel_tiles_within(level, x, y, width, height) ==
    LET tile_size == level.parent.tile_size
        col_start == x \div tile_size
        col_end == (x + width) \div tile_size
        row_start == y \div tile_size
        row_end == (y + height) \div tile_size
        r0 == Max2(row_start, 0)
        r1 == Min2(row_end + 1, level.n_rows)
        c0 == Max2(col_start, 0)
        c1 == Min2(col_end + 1, level.n_cols)
        nr == Max2(r1 - r0, 0)
        nc == Max2(c1 - c0, 0)
    IN  [i \in 1..(nr * nc) |->
            DziLevel_tile(level, c0 + RowMajor(i, nc, nr)[1],
                          r0 + RowMajor(i, nc, nr)[2]).value]

\* DziLevel.tiles_byrow: for c in range(cols): for r in range(rows)
DziLevel_tiles_byrow(level) ==
    [i \in 1..(level.n_cols * level.n_rows) |->
        DziLevel_tile(level, ColumnMajor(i, level.n_cols, level.n_rows)[1],
                      ColumnMajor(i, level.n_cols, level.n_rows)[2]).value]

\* DziLevel.tiles_bycol: for r in range(rows): for c in range(cols)
DziLevel_tiles_bycol(level) ==
    [i \in 1..(level.n_cols * level.n_rows) |->
        DziLevel_tile(level, RowMajor(i, level.n_cols, level.n_rows)[1],
                      RowMajor(i, level.n_cols, level.n_rows)[2]).value]

\* DziLevel.tiles(): return self.tiles_bycol()
DziLevel_tiles_default(level) == DziLevel_tiles_bycol(level)

Point_sub(p, q) == Point(p.x - q.x, p.y - q.y)
Abs(v) == IF v < 0 THEN 0 - v ELSE v

\* (variant: the crop is not moved when the tile starts left of or above
\* the box)
UnshiftedEdge(edge, place_dest) == edge

\* if place_dest.x < 0: crop.left += abs(place_dest.x)   (and .y, crop.top)
ShiftedEdge(edge, place_dest) ==
    IF place_dest < 0 THEN edge + Abs(place_dest) ELSE edge

\* if place_dest.x < 0: place_dest.x = 0   (and .y)
ClampedDest(place_dest) == IF place_dest < 0 THEN 0 ELSE place_dest

\* One DziTileToImageDescr of tiles_for_area: the tile, the crop of its
\* payload and where the crop goes in the image of the requested area.
DziTileToImageDescr(tile, tile_size, x, y) ==
    LET place_origin == Point(tile.col * tile_size, tile.row * tile_size)
        place_dest == Point_sub(place_origin, Point(x, y))
    IN  [tile |-> tile,
         crop |-> [tile.crop EXCEPT
                      !.left = ShiftedEdge(@, place_dest.x),
                      !.top = ShiftedEdge(@, place_dest.y)],
         place_point |-> Point(ClampedDest(place_dest.x),
                               ClampedDest(place_dest.y))]

\* DziLevel.tiles_for_area: what the generator yields, in order.
DziLevel_tiles_for_area(level, x, y, width, height) ==
    LET tiles == DziLevel_tiles_within(level, x, y, width, height)
    IN  [i \in 1..Len(tiles) |->
            DziTileToImageDescr(tiles[i], level.parent.tile_size, x, y)]

\* The pixels of the level that a tile's crop rectangle covers when it is
\* placed at the tile's top_left.
PlacedCropCovers(tile, px, py) ==
    /\ tile.top_left.x <= px /\ px < tile.top_left.x + Rect_width(tile.crop)
    /\ tile.top_left.y <= py /\ py < tile.top_left.y + Rect_height(tile.crop)

\* An optional value: None, or the value itself.
None == <<>>
Some(x) == <<x>>
ValueOf(opt) == opt[1]

\* int(round(math.log2(a / b))) for integers a, b >= 1: the k with
\* 2^(k - 1/2) < a/b < 2^(k + 1/2) (log2 of a rational is never k + 1/2).
IsRoundLog2(k, a, b) ==
    IF k >= 0
    THEN /\ Pow2(2 * k) * b * b < 2 * a * a
         /\ a * a < 2 * Pow2(2 * k) * b * b
    ELSE /\ b * b < 2 * a * a * Pow2(0 - 2 * k)
         /\ a * a * Pow2(0 - 2 * k) < 2 * b * b
round_log2(a, b) ==
    CHOOSE k \in (0 - FloorLog2(b) - 1)..(FloorLog2(a) + 1) :
        IsRoundLog2(k, a, b)

\* (variant: the logarithm rounded up)
IsCeilLog2(k, a, b) ==
    IF k >= 0
    THEN /\ (k = 0 \/ Pow2(k - 1) * b < a)
         /\ a <= Pow2(k) * b
    ELSE /\ b < a * Pow2(1 - k)
         /\ a * Pow2(0 - k) <= b
ceil_log2(a, b) ==
    CHOOSE k \in (0 - FloorLog2(b) - 1)..(FloorLog2(a) + 1) :
        IsCeilLog2(k, a, b)

\* math.floor(math.log2(a / b)) for integers a, b >= 1: the k with
\* 2^k <= a/b < 2^(k + 1).
IsFloorLog2(k, a, b) ==
    IF k >= 0
    THEN /\ Pow2(k) * b <= a
         /\ a < 2 * Pow2(k) * b
    ELSE /\ b <= a * Pow2(0 - k)
         /\ a * Pow2(0 - k) < 2 * b
floor_log2(a, b) ==
    CHOOSE k \in (0 - FloorLog2(b) - 1)..(FloorLog2(a) + 1) :
        IsFloorLog2(k, a, b)

\* (variant: the difference is added)
LevelAbove(baselevel, level_diff) == baselevel + level_diff

\* lvl = self.baselevel() - level_diff
LevelBelow(baselevel, level_diff) == baselevel - level_diff

\* (variant: the test of the requested magnification is dropped)
MagnTooLargeNever(magn, magnification) == FALSE

\* if magn > self.magnification: raise ValueError
MagnTooLarge(magn, magnification) == magn > magnification

\* DziDescription.level_at_mag, magnifications being integers >= 1
DziDescription_level_at_mag(d, magn) ==
    IF d.magnification = None
    THEN Raises("magnification not set")
    ELSE IF MagnTooLarge(magn, ValueOf(d.magnification))
    THEN Raises("ValueError")
    ELSE LET level_diff == round_log2(ValueOf(d.magnification), magn)
             lvl == LevelBelow(DziDescription_baselevel(d), level_diff)
         IN  DziDescription_level(d, lvl)

\* The number n / d for d a power of two: the integer itself when it is
\* one, the fraction in lowest terms otherwise.
RECURSIVE Ratio(_, _)
Ratio(n, d) ==
    IF d = 1 THEN n
    ELSE IF n % 2 = 0 THEN Ratio(n \div 2, d \div 2)
    ELSE [num |-> n, den |-> d]

\* DziLevel.resolution: parent.resolution * 2.0**(baselevel - level); above
\* the baselevel the factor is below 1.
DziLevel_resolution(lv) ==
    IF lv.parent.resolution = None
    THEN None
    ELSE LET up == DziDescription_baselevel(lv.parent) - lv.level
         IN  IF up >= 0
             THEN Some(ValueOf(lv.parent.resolution) * Pow2(up))
             ELSE Some(Ratio(ValueOf(lv.parent.resolution), Pow2(0 - up)))

\* (variant: a request finer than the slide is not clamped)
ClampedLevelDiffOff(level_diff, microns_per_pixel, slideres) == level_diff

\* if res_diff < 1.0: level_diff = 0
ClampedLevelDiff(level_diff, microns_per_pixel, slideres) ==
    IF microns_per_pixel < slideres THEN 0 ELSE level_diff

\* (variant: always_smaller rounds the logarithm up)
SmallerLevelDiffUp(microns_per_pixel, slideres) ==
    ceil_log2(microns_per_pixel, slideres)

\* if always_smaller: level_diff = math.floor(math.log2(res_diff))
SmallerLevelDiff(microns_per_pixel, slideres) ==
    floor_log2(microns_per_pixel, slideres)

\* DziDescription.level_at_mpp, resolutions being integers >= 1; the ratio
\* mpp_at_level / microns_per_pixel is kept as a fraction.
DziDescription_level_at_mpp(d, microns_per_pixel, always_smaller) ==
    IF d.resolution = None
    THEN Raises("resolution not set")
    ELSE LET slideres == ValueOf(d.resolution)
             level_diff ==
                 ClampedLevelDiff(
                     IF always_smaller
                     THEN SmallerLevelDiff(microns_per_pixel, slideres)
                     ELSE round_log2(microns_per_pixel, slideres),
                     microns_per_pixel, slideres)
             lvl == LevelBelow(DziDescription_baselevel(d), level_diff)
             lvl_dzi == DziLevel(d, lvl)
             mpp_at_level == ValueOf(DziLevel_resolution(lvl_dzi))
         IN  Returns([level |-> lvl_dzi,
                      mpp_at_level |-> mpp_at_level,
                      ratio |-> [num |-> mpp_at_level,
                                 den |-> microns_per_pixel]])

----------------------------------------------------------------------------
(* The pyramid queries: one query on one descriptor per behaviour.         *)

\* Bounds of the descriptors and of the arguments outside the valid range.
MaxSize == 6
MaxTileSize == 3
MaxOverlap == 1
Slack == 1
MaxProbe == 7
MaxMagnification == 8
MaxResolution == 4
MaxMpp == 9
MaxBox == 2
MaxPasses == 2

\* The descriptor of the spec's round-trip example.
ExampleDescription ==
    [width |-> 1000, height |-> 1000, tile_size |-> 256, tile_overlap |-> 0,
     magnification |-> None, resolution |-> None]

Descriptions ==
    {[width |-> w, height |-> h, tile_size |-> t, tile_overlap |-> o,
      magnification |-> None, resolution |-> None] :
        w \in 1..MaxSize, h \in 1..MaxSize,
        t \in 1..MaxTileSize, o \in 0..MaxOverlap}
    \cup {ExampleDescription}

\* Descriptors with a magnification, a resolution, both or neither.
CalibratedDescriptions ==
    {[width |-> w, height |-> 1, tile_size |-> 2, tile_overlap |-> 0,
      magnification |-> m, resolution |-> r] :
        w \in {1, MaxSize},
        m \in {None} \cup {Some(x) : x \in 1..MaxMagnification},
        r \in {None} \cup {Some(x) : x \in 1..MaxResolution}}

\* The coordinates of the corner of a query box, from left of (above) the
\* level to inside it or right of (below) it.
BoxOrigins == (0 - Slack - 1)..MaxBox

\* The pixel coordinates probed along an axis of the given size.
ProbeCoords(size, tile_size) ==
    {x \in 0..(size - 1) :
        x < MaxProbe \/ x = size - 1 \/ x % tile_size \in {0, tile_size - 1}}

InitDzi ==
    /\ stream = <<>>
    /\ minchunk = 1
    /\ pos = 0
    /\ pulls = 0
    /\ eos = 0
    /\ _buffer = <<>>
    /\ next_chunk = <<>>
    /\ pc = "unused"
    /\ out = <<>>
    /\ err = "none"
    /\ resumed = FALSE
    /\ \E d \in Descriptions \cup CalibratedDescriptions :
          dzi = [op |-> "none", desc |-> d]
    /\ retry = RetryIdle
    /\ watch = WatchIdle

\* d.level(n), with its width(), height() and resolution()
QueryLevel ==
    /\ dzi.op = "none"
    /\ \E n \in (0 - Slack)..(DziDescription_baselevel(dzi.desc) + Slack) :
         dzi' = [op |-> "level", desc |-> dzi.desc, n |-> n,
                 res |-> DziDescription_level(dzi.desc, n),
                 width |-> DziLevel_width(dzi.desc, n),
                 height |-> DziLevel_height(dzi.desc, n),
                 resolution |-> DziLevel_resolution(DziLevel(dzi.desc, n))]
    /\ UNCHANGED <<mpvars, retry, watch>>

\* d.level(n).tile(col, row)
QueryTile ==
    /\ dzi.op = "none"
    /\ \E n \in 0..DziDescription_baselevel(dzi.desc) :
         LET lv == DziLevel(dzi.desc, n)
         IN  \E col \in (0 - Slack)..(lv.n_cols - 1 + Slack),
                row \in (0 - Slack)..(lv.n_rows - 1 + Slack) :
                dzi' = [op |-> "tile", desc |-> dzi.desc, n |-> n,
                        col |-> col, row |-> row,
                        res |-> DziLevel_tile(lv, col, row)]
    /\ UNCHANGED <<mpvars, retry, watch>>

\* The tiles of d.level(n).tiles() whose placed crop covers pixel (px, py).
QueryCover ==
    /\ dzi.op = "none"
    /\ \E n \in 0..DziDescription_baselevel(dzi.desc) :
         LET lv == DziLevel(dzi.desc, n)
         IN  \E px \in ProbeCoords(DziLevel_width(dzi.desc, n), dzi.desc.tile_size),
                py \in ProbeCoords(DziLevel_height(dzi.desc, n), dzi.desc.tile_size) :
                dzi' = [op |-> "cover", desc |-> dzi.desc, n |-> n,
                        px |-> px, py |-> py,
                        count |-> Cardinality(
                            {tile \in DziLevel_tiles(lv) :
                                PlacedCropCovers(tile, px, py)})]
    /\ UNCHANGED <<mpvars, retry, watch>>

\* d.level_approx_width(width)
QueryLevelApproxWidth ==
    /\ dzi.op = "none"
    /\ \E width \in 1..(dzi.desc.width + Slack) :
         dzi' = [op |-> "level_approx_width", desc |-> dzi.desc,
                 width |-> width,
                 res |-> DziDescription_level_approx_width(dzi.desc, width)]
    /\ UNCHANGED <<mpvars, retry, watch>>

\* d.level_at_mag(magn), called any number of times
QueryLevelAtMag ==
    /\ dzi.op \in {"none", "level_at_mag"}
    /\ \E magn \in 1..(MaxMagnification + Slack) :
         dzi' = [op |-> "level_at_mag", desc |-> dzi.desc, magn |-> magn,
                 res |-> DziDescription_level_at_mag(dzi.desc, magn)]
    /\ UNCHANGED <<mpvars, retry, watch>>

\* d.level_at_mpp(microns_per_pixel, always_smaller), called any number of
\* times
QueryLevelAtMpp ==
    /\ dzi.op \in {"none", "level_at_mpp"}
    /\ \E microns_per_pixel \in 1..MaxMpp, always_smaller \in BOOLEAN :
         dzi' = [op |-> "level_at_mpp", desc |-> dzi.desc,
                 microns_per_pixel |-> microns_per_pixel,
                 always_smaller |-> always_smaller,
                 res |-> DziDescription_level_at_mpp(
                             dzi.desc, microns_per_pixel, always_smaller)]
    /\ UNCHANGED <<mpvars, retry, watch>>

\* g = d.level(baselevel).tiles_within(x, y, width, height): a generator
\* that has yielded nothing yet.  Called first, or again with the same
\* arguments.
CallTilesWithin ==
    /\ \/ /\ dzi.op = "none"
          /\ \E x \in BoxOrigins, y \in BoxOrigins,
                width \in 1..MaxBox, height \in 1..MaxBox :
                dzi' = [op |-> "tiles_within", desc |-> dzi.desc,
                        n |-> DziDescription_baselevel(dzi.desc),
                        x |-> x, y |-> y, width |-> width, height |-> height,
                        calls |-> 1,
                        gen |-> DziLevel_tiles_within(
                                    DziLevel(dzi.desc,
                                        DziDescription_baselevel(dzi.desc)),
                                    x, y, width, height),
                        passes |-> <<>>]
       \/ /\ dzi.op = "tiles_within"
          /\ dzi.calls = 1
          /\ Len(dzi.passes) < MaxPasses
          /\ dzi' = [dzi EXCEPT
                        !.calls = 2,
                        !.gen = DziLevel_tiles_within(
                                    DziLevel(dzi.desc, dzi.n),
                                    dzi.x, dzi.y, dzi.width, dzi.height)]
    /\ UNCHANGED <<mpvars, retry, watch>>

\* list(g): the generator yields what it has left and is then exhausted.
IterateTilesWithin ==
    /\ dzi.op = "tiles_within"
    /\ Len(dzi.passes) < MaxPasses
    /\ dzi' = [dzi EXCEPT
                  !.passes = Append(@, [call |-> dzi.calls, tiles |-> dzi.gen]),
                  !.gen = <<>>]
    /\ UNCHANGED <<mpvars, retry, watch>>

\* list(d.level(baselevel).tiles_for_area(x, y, width, height))
QueryTilesForArea ==
    /\ dzi.op = "none"
    /\ \E x \in BoxOrigins, y \in BoxOrigins,
          width \in 1..MaxBox, height \in 1..MaxBox :
          dzi' = [op |-> "tiles_for_area", desc |-> dzi.desc,
                  n |-> DziDescription_baselevel(dzi.desc),
                  x |-> x, y |-> y, width |-> width, height |-> height,
                  placements |-> DziLevel_tiles_for_area(
                                     DziLevel(dzi.desc,
                                         DziDescription_baselevel(dzi.desc)),
                                     x, y, width, height)]
    /\ UNCHANGED <<mpvars, retry, watch>>

\* g = d.level(n).tiles(), or tiles_byrow(): a generator that has yielded
\* nothing yet
CallTiles ==
    /\ dzi.op = "none"
    /\ \E n \in 0..DziDescription_baselevel(dzi.desc),
          method \in {"tiles", "tiles_byrow"} :
          dzi' = [op |-> method, desc |-> dzi.desc, n |-> n,
                  yielded |-> <<>>]
    /\ UNCHANGED <<mpvars, retry, watch>>

\* next(g): the generator yields its next tile
NextTile ==
    /\ dzi.op \in {"tiles", "tiles_byrow"}
    /\ LET all == IF dzi.op = "tiles"
                  THEN DziLevel_tiles_default(DziLevel(dzi.desc, dzi.n))
                  ELSE DziLevel_tiles_byrow(DziLevel(dzi.desc, dzi.n))
       IN  /\ Len(dzi.yielded) < Len(all)
           /\ dzi' = [dzi EXCEPT
                         !.yielded = Append(@, all[Len(dzi.yielded) + 1])]
    /\ UNCHANGED <<mpvars, retry, watch>>

NextDzi ==
    \/ QueryLevel
    \/ QueryTile
    \/ QueryCover
    \/ QueryLevelApproxWidth
    \/ QueryLevelAtMag
    \/ QueryLevelAtMpp
    \/ CallTilesWithin
    \/ IterateTilesWithin
    \/ QueryTilesForArea
    \/ CallTiles
    \/ NextTile

SpecDzi == InitDzi /\ [][NextDzi]_vars

----------------------------------------------------------------------------
(* Properties of the multipart decoder.                                    *)

\* The consumer has received an exception, from parts() or from a body.
Failed == pc \in {"error", "body_error"}

\* The run of a consumer that stops at the first error has ended: normally,
\* or with an exception.
Terminated == ~resumed /\ (pc = "done" \/ Failed)

\* The spec's ProtocolViolation: a missing start boundary, or an end marker
\* that is not the end of the stream.
ProtocolViolations == {"NoStartBoundary", "EndDelimiterNotAtEnd"}

\* C1: for a well-formed stream, under every chunking, parts() driven by a
\* draining consumer ends normally and has yielded exactly the stream's
\* (filename, body) pairs in stream order.
C1_EveryChunkingYieldsParts ==
    (Terminated /\ stream \in WellFormedStreams)
        => (pc = "done" /\ out = PartsOf(stream))

\* C2: when every chunk is at least as long as the boundary token, parts()
\* on a well-formed stream ends normally with exactly the stream's pairs,
\* also when a boundary token straddles two chunks.
C2_LongChunksYieldParts ==
    (Terminated /\ stream \in WellFormedStreams /\ minchunk >= _boundary_length)
        => (pc = "done" /\ err = "none" /\ out = PartsOf(stream))

\* C3: a first chunk that does not begin with the start boundary makes the
\* first request for a part fail with the missing-start-boundary error,
\* with exactly one chunk pulled and nothing yielded; nothing happens after
\* that failure.
C3_NoStartBoundaryFails ==
    [][/\ (pc = "first" /\ pulls' = pulls + 1
            /\ ~StartsWith(SubSeq(stream, 1, pos'), _start_boundary))
          => (pc' = "error" /\ err' = "NoStartBoundary"
              /\ pulls' = 1 /\ out' = <<>>)
       /\ (err = "NoStartBoundary") => (out' = out /\ pulls' = pulls)]_vars

\* C3 witness: the decoder has failed on a first chunk without the start
\* boundary.
C3_Witness ==
    /\ pc = "error" /\ err = "NoStartBoundary"
    /\ pulls = 1 /\ out = <<>>
    /\ ~StartsWith(SubSeq(stream, 1, pos), _start_boundary)

\* The base stream of a stream with trailing bytes.
BaseOf(s) ==
    CHOOSE w \in WellFormedStreams : \E x \in {<<90>>, CRLF} : s = w \o x

\* C4: a well-formed stream followed by extra bytes makes the decoder fail
\* with a protocol violation under every chunking; it never ends normally
\* and yields no part beyond those of the well-formed stream; a normal end
\* happens only with the buffer exactly the end-token and the source
\* exhausted.
C4_TrailingBytesFail ==
    /\ (Terminated /\ stream \in TrailingStreams)
          => /\ pc = "error"
             /\ err \in ProtocolViolations
             /\ Len(out) <= Len(PartsOf(BaseOf(stream)))
    /\ (pc = "done") => (_buffer = END_DELIMITER /\ Exhausted)

\* C5: on a proper prefix of a well-formed stream the decoder ends with the
\* unexpected-end-of-stream error, raised at the pull that found the source
\* exhausted, and never ends normally.
C5_TruncatedStreamFails ==
    (Terminated /\ stream \in PrefixStreams)
        => (Failed /\ err = "EndOfStream" /\ eos = 1 /\ Exhausted)

----------------------------------------------------------------------------
(* Properties of the pyramid geometry.                                     *)

QueriedLevel == DziLevel(dzi.desc, dzi.n)
QueriedBase == DziDescription_baselevel(dzi.desc)

\* C6: at every level in [0, baselevel] cols*rows >= 1, every pixel of the
\* level rectangle is covered by the placed crop of exactly one tile, and
\* the placed crop of every tile is non-empty and lies inside the level.
C6_CropsTileLevel ==
    /\ (dzi.op = "level" /\ dzi.n \in 0..QueriedBase) =>
          dzi.res.value.n_cols * dzi.res.value.n_rows >= 1
    /\ (dzi.op = "cover") => dzi.count = 1
    /\ (dzi.op = "tile" /\ dzi.res.ok /\ dzi.col >= 0 /\ dzi.row >= 0) =>
          LET tile == dzi.res.value
          IN  /\ Rect_width(tile.crop) >= 1
              /\ Rect_height(tile.crop) >= 1
              /\ tile.top_left.x + Rect_width(tile.crop)
                    <= DziLevel_width(dzi.desc, dzi.n)
              /\ tile.top_left.y + Rect_height(tile.crop)
                    <= DziLevel_height(dzi.desc, dzi.n)

\* A pixel of a partial final column, with overlap, at a level of three or
\* more columns, is covered once.
C6_Witness ==
    /\ dzi.op = "cover"
    /\ dzi.desc.tile_overlap > 0
    /\ QueriedLevel.n_cols >= 3
    /\ DziLevel_width(dzi.desc, dzi.n) % dzi.desc.tile_size # 0
    /\ dzi.px = DziLevel_width(dzi.desc, dzi.n) - 1
    /\ dzi.count = 1

SufficientLevels(d, width) ==
    {n \in 0..DziDescription_baselevel(d) : DziLevel_width(d, n) >= width}

\* C7: level_approx_width(w) returns, for every w >= 1, the smallest level
\* in [0, baselevel] whose width is >= w, and baselevel for w >= W; it
\* never fails.
C7_SmallestSufficientLevel ==
    (dzi.op = "level_approx_width") =>
        /\ dzi.res.ok
        /\ IF dzi.width >= dzi.desc.width
           THEN dzi.res.value.level = QueriedBase
           ELSE /\ dzi.res.value.level \in SufficientLevels(dzi.desc, dzi.width)
                /\ \A m \in SufficientLevels(dzi.desc, dzi.width) :
                      dzi.res.value.level <= m

\* C8: the level at baselevel, the least L with 2^L >= max(W, H), has
\* width W and height H.
C8_BaseLevelHasBaseSize ==
    (dzi.op = "level" /\ dzi.n = QueriedBase) =>
        /\ dzi.res.ok
        /\ dzi.width = dzi.desc.width
        /\ dzi.height = dzi.desc.height
        /\ Pow2(dzi.n) >= Max2(dzi.desc.width, dzi.desc.height)
        /\ \A L \in 0..(dzi.n - 1) :
              Pow2(L) < Max2(dzi.desc.width, dzi.desc.height)

\* The base level of a 5 x 3 image is level 3.
C8_Witness ==
    /\ dzi.op = "level"
    /\ dzi.desc.width = 5
    /\ dzi.desc.height = 3
    /\ dzi.n = 3
    /\ dzi.n = QueriedBase
    /\ dzi.width = 5
    /\ dzi.height = 3

\* C9: with overlap 0 the tile of the final column is
\* levelWidth - (cols-1)*T wide and the tile of the final row is
\* levelHeight - (rows-1)*T high, both in 1..T; every other tile is T x T.
\* For W = H = 1000, T = 256 the base level has 4 x 4 tiles and tile(3,3)
\* is 232 x 232.
C9_EdgeTileSizes ==
    /\ (dzi.op = "tile" /\ dzi.res.ok /\ dzi.desc.tile_overlap = 0
            /\ dzi.col >= 0 /\ dzi.row >= 0) =>
          LET tile == dzi.res.value
              T == dzi.desc.tile_size
          IN  /\ IF dzi.col = QueriedLevel.n_cols - 1
                 THEN /\ tile.width = DziLevel_width(dzi.desc, dzi.n)
                                        - (QueriedLevel.n_cols - 1) * T
                      /\ tile.width \in 1..T
                 ELSE tile.width = T
              /\ IF dzi.row = QueriedLevel.n_rows - 1
                 THEN /\ tile.height = DziLevel_height(dzi.desc, dzi.n)
                                        - (QueriedLevel.n_rows - 1) * T
                      /\ tile.height \in 1..T
                 ELSE tile.height = T
    /\ (dzi.op = "tile" /\ dzi.desc = ExampleDescription
            /\ dzi.n = QueriedBase) =>
          /\ QueriedLevel.n_cols = 4
          /\ QueriedLevel.n_rows = 4
          /\ (dzi.col = 3 /\ dzi.row = 3) =>
                /\ dzi.res.ok
                /\ dzi.res.value.width = 232
                /\ dzi.res.value.height = 232

\* tile(3,3) of the base level of the 1000 x 1000 example.
C9_Witness ==
    /\ dzi.op = "tile"
    /\ dzi.desc = ExampleDescription
    /\ dzi.n = QueriedBase
    /\ dzi.col = 3
    /\ dzi.row = 3
    /\ dzi.res.ok
    /\ dzi.res.value.width = 1000 - 3 * 256

\* C10: level(n) fails for every n outside [0, baselevel] and returns a
\* level only for n inside.
C10_LevelOutOfRangeFails ==
    (dzi.op = "level") => (dzi.res.ok <=> dzi.n \in 0..QueriedBase)

\* C11: level.tile(col, row) returns a tile if and only if
\* 0 <= col < cols and 0 <= row < rows; every other (col, row), negative
\* ones included, fails.
C11_TileBoundsStrict ==
    (dzi.op = "tile") =>
        (dzi.res.ok <=> /\ dzi.col \in 0..(QueriedLevel.n_cols - 1)
                        /\ dzi.row \in 0..(QueriedLevel.n_rows - 1))

\* C12: level_at_mag(magn) fails with the calibration error whenever the
\* descriptor has no magnification, fails with the argument error exactly
\* when the magnification M is set and magn > M, and otherwise returns the
\* level baselevel - round(log2(M / magn)): baselevel for magn = M and
\* baselevel - k for M / magn = 2^k.
C12_LevelAtMagOutcome ==
    (dzi.op = "level_at_mag") =>
        IF dzi.desc.magnification = None
        THEN ~dzi.res.ok /\ dzi.res.error = "magnification not set"
        ELSE IF dzi.magn > ValueOf(dzi.desc.magnification)
        THEN ~dzi.res.ok /\ dzi.res.error = "ValueError"
        ELSE LET M == ValueOf(dzi.desc.magnification)
             IN  /\ dzi.res.ok
                 /\ IsRoundLog2(QueriedBase - dzi.res.value.level, M, dzi.magn)
                 /\ (dzi.magn = M) => dzi.res.value.level = QueriedBase
                 /\ \A k \in 0..M :
                       (M = Pow2(k) * dzi.magn) =>
                           dzi.res.value.level = QueriedBase - k

\* A quarter of the magnification 8 is two levels below the base level.
C12_Witness ==
    /\ dzi.op = "level_at_mag"
    /\ dzi.desc.magnification = Some(8)
    /\ dzi.magn = 2
    /\ dzi.res.ok
    /\ QueriedBase = 3
    /\ dzi.res.value.level = 1

\* C13: level_at_mpp with a resolution R set never fails and never returns
\* a level above baselevel; for a request mpp < R it returns, for both
\* values of always_smaller, the base level with resolution R and ratio
\* R / mpp.
C13_FinerRequestGivesBaseLevel ==
    (dzi.op = "level_at_mpp" /\ dzi.desc.resolution # None) =>
        /\ dzi.res.ok
        /\ dzi.res.value.level.level <= QueriedBase
        /\ (dzi.microns_per_pixel < ValueOf(dzi.desc.resolution)) =>
              /\ dzi.res.value.level = DziLevel(dzi.desc, QueriedBase)
              /\ dzi.res.value.mpp_at_level = ValueOf(dzi.desc.resolution)
              /\ dzi.res.value.ratio.num * dzi.microns_per_pixel
                    = ValueOf(dzi.desc.resolution) * dzi.res.value.ratio.den

\* 1 micron per pixel asked of a slide of 4 microns per pixel.
C13_Witness ==
    /\ dzi.op = "level_at_mpp"
    /\ dzi.desc.resolution = Some(4)
    /\ dzi.microns_per_pixel = 1
    /\ dzi.always_smaller
    /\ dzi.res.ok
    /\ QueriedBase = 3
    /\ dzi.res.value.level.level = 3
    /\ dzi.res.value.mpp_at_level = 4

\* C14: with always_smaller and a request mpp >= R the returned level has
\* resolution <= mpp (ratio <= 1) and the next coarser level has
\* resolution > mpp.
C14_AlwaysSmallerNeighbour ==
    (/\ dzi.op = "level_at_mpp"
     /\ dzi.desc.resolution # None
     /\ dzi.always_smaller
     /\ dzi.microns_per_pixel >= ValueOf(dzi.desc.resolution)) =>
        /\ dzi.res.ok
        /\ dzi.res.value.mpp_at_level <= dzi.microns_per_pixel
        /\ dzi.res.value.ratio.num <= dzi.res.value.ratio.den
        /\ ValueOf(DziLevel_resolution(
                       DziLevel(dzi.desc, dzi.res.value.level.level - 1)))
              > dzi.microns_per_pixel

\* 3 microns per pixel asked of a slide of 1: one level below the base
\* (2 microns per pixel), where rounding would give two.
C14_Witness ==
    /\ dzi.op = "level_at_mpp"
    /\ dzi.always_smaller
    /\ dzi.desc.resolution = Some(1)
    /\ dzi.microns_per_pixel = 3
    /\ dzi.res.ok
    /\ dzi.res.value.level.level = QueriedBase - 1
    /\ dzi.res.value.mpp_at_level = 2

\* C15: between two calls on one descriptor, a coarser request (a larger
\* mpp with the same always_smaller, or a smaller magnification) never
\* gives a higher level, and every returned level is <= baselevel.
C15_CoarserNeverHigher ==
    [][/\ (/\ dzi.op = "level_at_mpp" /\ dzi'.op = "level_at_mpp"
           /\ dzi.res.ok /\ dzi'.res.ok
           /\ dzi.always_smaller = dzi'.always_smaller
           /\ dzi.microns_per_pixel <= dzi'.microns_per_pixel) =>
              dzi.res.value.level.level >= dzi'.res.value.level.level
       /\ (/\ dzi.op = "level_at_mag" /\ dzi'.op = "level_at_mag"
           /\ dzi.res.ok /\ dzi'.res.ok
           /\ dzi'.magn <= dzi.magn) =>
              dzi.res.value.level >= dzi'.res.value.level
       /\ (dzi'.op = "level_at_mpp" /\ dzi'.res.ok) =>
              dzi'.res.value.level.level
                 <= DziDescription_baselevel(dzi'.desc)
       /\ (dzi'.op = "level_at_mag" /\ dzi'.res.ok) =>
              dzi'.res.value.level <= DziDescription_baselevel(dzi'.desc)
      ]_vars

\* An eighth of the magnification selects the level three below the base.
C15_Witness ==
    /\ dzi.op = "level_at_mag"
    /\ dzi.desc.magnification = Some(8)
    /\ dzi.magn = 1
    /\ dzi.res.ok
    /\ dzi.res.value.level = QueriedBase - 3

QueriedTilesWithin ==
    DziLevel_tiles_within(QueriedLevel, dzi.x, dzi.y, dzi.width, dzi.height)

\* C16: every iteration of the sequence returned by tiles_within, the
\* second iteration of one returned sequence included, and every call
\* with the same arguments, yields the same tiles from the start.
C16_TilesWithinRestartable ==
    (dzi.op = "tiles_within") =>
        \A i \in 1..Len(dzi.passes) :
            dzi.passes[i].tiles = QueriedTilesWithin

FootprintMeetsBox(tile, tile_size, x, y, width, height) ==
    /\ tile.col * tile_size < x + width
    /\ x < tile.col * tile_size + tile_size
    /\ tile.row * tile_size < y + height
    /\ y < tile.row * tile_size + tile_size

\* C20: for x, y >= 0 and width, height >= 1 every tile yielded by
\* tiles_within has a footprint [col*T, col*T+T) x [row*T, row*T+T) that
\* shares a pixel with [x, x+width) x [y, y+height).
C20_TilesWithinIntersectBox ==
    (dzi.op = "tiles_within" /\ dzi.x >= 0 /\ dzi.y >= 0) =>
        \A i \in 1..Len(dzi.passes) :
            \A j \in 1..Len(dzi.passes[i].tiles) :
                FootprintMeetsBox(dzi.passes[i].tiles[j],
                                  dzi.desc.tile_size,
                                  dzi.x, dzi.y, dzi.width, dzi.height)

\* C17: after the field-missing error of a part without a filename the
\* consumer can carry on, and every following part of the stream is
\* delivered with its filename and body.
C17_FieldMissingKeepsFraming ==
    (stream \in NoFilenameStreams /\ err = "FilenameNotFound"
        /\ pc = "closed") => out = Parts1

\* The chunk the source hands out in a step.
PulledChunk == SubSeq(stream, pos + 1, pos')
LastBody(o) == o[Len(o)][2]

\* The positions of the consumer inside one body.
BodyPcs == {"body", "yield_chunk", "yield_between", "yield_last"}

\* C18: while a body is streamed the buffer holds bytes of one chunk only
\* (or the remainder left after the header): streaming starts with the
\* remainder after the header; a pull that finds no boundary yields the
\* whole buffer, and the resumption after that yield makes the pulled
\* chunk the buffer; no step of body streaming leaves a buffer longer
\* than the pulled chunk or the buffer before it.
C18_BufferHoldsOneChunk ==
    [][/\ (pc = "header" /\ pc' = "body") => _buffer' = AfterHeader(_buffer)
       /\ (pc \in BodyPcs /\ pc' = "yield_chunk") =>
             /\ pulls' = pulls + 1
             /\ next_chunk' = PulledChunk
             /\ LastBody(out') = LastBody(out) \o _buffer'
       /\ (pc = "yield_chunk") => _buffer' = next_chunk
       /\ (pc \in BodyPcs) =>
             Len(_buffer') <= Max2(Len(next_chunk), Len(_buffer))
      ]_vars

\* A body is being streamed after two pulls in a row that found no
\* boundary: the buffer is the chunk before the last, yielded whole, and
\* the last chunk waits in next_chunk.
C18_Witness ==
    /\ pc = "yield_chunk"
    /\ pulls >= 3
    /\ LastBody(out) # <<>>
    /\ _buffer # <<>>
    /\ next_chunk = SubSeq(stream, pos - Len(next_chunk) + 1, pos)
    /\ _buffer = SubSeq(stream, pos - Len(next_chunk) - Len(_buffer) + 1,
                        pos - Len(next_chunk))

\* The last k bytes of buf are the first k bytes of the boundary token
\* and chunk begins with the rest of the token.
TokenSplitAt(buf, chunk, k) ==
    /\ k <= Len(buf)
    /\ SubSeq(buf, Len(buf) - k + 1, Len(buf)) = SubSeq(_boundary, 1, k)
    /\ StartsWith(chunk, SubSeq(_boundary, k + 1, _boundary_length))

\* C19: when the boundary token is split between the buffer (its first k
\* bytes, k in 1..boundary length - 1) and the pulled chunk, the token is
\* detected, the fragment yielded is the buffer without its last k bytes
\* and the new buffer is what follows the token in the chunk.
C19_SplitTokenDetected ==
    [][\A k \in 1..(_boundary_length - 1) :
          /\ (/\ pc \in {"body", "yield_chunk"}
              /\ end_index(_buffer') = -1
              /\ pulls' = pulls + 1
              /\ TokenSplitAt(_buffer', PulledChunk, k)) =>
                 /\ pc' = "yield_between"
                 /\ LastBody(out') =
                       LastBody(out) \o SubSeq(_buffer', 1, Len(_buffer') - k)
          /\ (/\ pc = "yield_between"
              /\ TokenSplitAt(_buffer, next_chunk, k)) =>
                 _buffer' = SubSeq(next_chunk, _boundary_length - k + 1,
                                   Len(next_chunk))
      ]_vars

\* floor(a / b) for b >= 1
FloorDiv(a, b) == a \div b

BoxOutsideLevel ==
    \/ dzi.x + dzi.width <= 0
    \/ dzi.y + dzi.height <= 0
    \/ dzi.x >= DziLevel_width(dzi.desc, dzi.n)
    \/ dzi.y >= DziLevel_height(dzi.desc, dzi.n)

\* C21: the first iteration of tiles_within(x, y, width, height) yields
\* exactly the tiles with max(floor(x/T), 0) <= col <=
\* min(floor((x+width)/T), cols-1) and the same for rows, each once, rows
\* ascending and columns ascending inside a row; they include every tile
\* whose footprint shares a pixel with the box; a box entirely outside the
\* level yields no tile.
C21_TilesWithinRange ==
    (dzi.op = "tiles_within" /\ Len(dzi.passes) >= 1) =>
        LET T == dzi.desc.tile_size
            tiles == dzi.passes[1].tiles
            Cols == Max2(FloorDiv(dzi.x, T), 0)
                    ..Min2(FloorDiv(dzi.x + dzi.width, T),
                           QueriedLevel.n_cols - 1)
            Rows == Max2(FloorDiv(dzi.y, T), 0)
                    ..Min2(FloorDiv(dzi.y + dzi.height, T),
                           QueriedLevel.n_rows - 1)
        IN  /\ {<<tiles[i].col, tiles[i].row>> : i \in 1..Len(tiles)}
                  = Cols \X Rows
            /\ Len(tiles) = Cardinality(Cols \X Rows)
            /\ \A i, j \in 1..Len(tiles) :
                  (i < j) =>
                     \/ tiles[i].row < tiles[j].row
                     \/ /\ tiles[i].row = tiles[j].row
                        /\ tiles[i].col < tiles[j].col
            /\ \A c \in 0..(QueriedLevel.n_cols - 1),
                  r \in 0..(QueriedLevel.n_rows - 1) :
                  FootprintMeetsBox([col |-> c, row |-> r], T,
                                    dzi.x, dzi.y, dzi.width, dzi.height)
                  => <<c, r>> \in Cols \X Rows
            /\ BoxOutsideLevel => tiles = <<>>

\* The canvas pixels a placement covers.
PlacementCovers(p, px, py) ==
    /\ p.place_point.x <= px
    /\ px < p.place_point.x + Rect_width(p.crop)
    /\ p.place_point.y <= py
    /\ py < p.place_point.y + Rect_height(p.crop)

\* C22: for x, y >= 0 every placement of tiles_for_area has place_point
\* (max(0, col*T - x), max(0, row*T - y)) and the tile's crop moved right
\* and down by (max(0, x - col*T), max(0, y - row*T)), so that the payload
\* pixel pasted on canvas pixel (px, py) is level pixel (x + px, y + py);
\* every canvas pixel whose level pixel is inside the level is covered by
\* exactly one placement.
C22_PlacementsRebuildArea ==
    (dzi.op = "tiles_for_area" /\ dzi.x >= 0 /\ dzi.y >= 0) =>
        LET T == dzi.desc.tile_size
            ps == dzi.placements
        IN  /\ \A i \in 1..Len(ps) :
                  LET p == ps[i]
                      ox == p.tile.col * T
                      oy == p.tile.row * T
                  IN  /\ p.place_point = Point(Max2(0, ox - dzi.x),
                                               Max2(0, oy - dzi.y))
                      /\ p.crop.left = p.tile.crop.left + Max2(0, dzi.x - ox)
                      /\ p.crop.top = p.tile.crop.top + Max2(0, dzi.y - oy)
                      /\ p.crop.right = p.tile.crop.right
                      /\ p.crop.bottom = p.tile.crop.bottom
                      \* payload column q shows level column ox - l + q
                      /\ ox - p.tile.overlap[2] + p.crop.left
                            - p.place_point.x = dzi.x
                      /\ oy - p.tile.overlap[1] + p.crop.top
                            - p.place_point.y = dzi.y
            /\ \A px \in 0..(dzi.width - 1), py \in 0..(dzi.height - 1) :
                  (/\ dzi.x + px < DziLevel_width(dzi.desc, dzi.n)
                   /\ dzi.y + py < DziLevel_height(dzi.desc, dzi.n)) =>
                      Cardinality({i \in 1..Len(ps) :
                                      PlacementCovers(ps[i], px, py)}) = 1

\* A box that starts inside a tile and reaches into the next column, on a
\* level with overlap.
C22_Witness ==
    /\ dzi.op = "tiles_for_area"
    /\ dzi.desc.tile_overlap > 0
    /\ dzi.desc.tile_size = 2
    /\ dzi.x = 1 /\ dzi.y = 1 /\ dzi.width = 2 /\ dzi.height = 2
    /\ Len(dzi.placements) = 4
    /\ dzi.placements[1].crop.left = 1
    /\ dzi.placements[2].place_point = Point(1, 0)

\* C28: for x, y >= 0 every placement of tiles_for_area has a crop inside
\* the tile payload: 0 <= left <= right <= tile.width and
\* 0 <= top <= bottom <= tile.height.
C28_PlacementCropWellFormed ==
    (dzi.op = "tiles_for_area" /\ dzi.x >= 0 /\ dzi.y >= 0) =>
        \A i \in 1..Len(dzi.placements) :
            LET p == dzi.placements[i]
            IN  /\ 0 <= p.crop.left
                /\ p.crop.left <= p.crop.right
                /\ p.crop.right <= p.tile.width
                /\ 0 <= p.crop.top
                /\ p.crop.top <= p.crop.bottom
                /\ p.crop.bottom <= p.tile.height

\* C23: the default iteration tiles() yields the tiles of a level in
\* column-major order (every tile of column c, rows ascending, before any
\* tile of column c+1), each once, all cols*rows of them.
C23_TilesColumnMajor ==
    (dzi.op = "tiles") =>
        /\ Len(dzi.yielded) <= QueriedLevel.n_cols * QueriedLevel.n_rows
        /\ \A i \in 1..Len(dzi.yielded) :
              /\ dzi.yielded[i].col = (i - 1) \div QueriedLevel.n_rows
              /\ dzi.yielded[i].row = (i - 1) % QueriedLevel.n_rows

\* C25: level_at_mag (for a request <= M) and level_at_mpp (both flags)
\* return only levels of the pyramid: 0 <= level <= baselevel.
C25_SelectedLevelInPyramid ==
    /\ (dzi.op = "level_at_mag" /\ dzi.res.ok) =>
          dzi.res.value.level \in 0..QueriedBase
    /\ (dzi.op = "level_at_mpp" /\ dzi.res.ok) =>
          dzi.res.value.level.level \in 0..QueriedBase

Finished == pc \in {"done", "error", "body_error", "closed"}

\* C24: the stream of zero parts is decoded, under every chunking, without
\* a part and without an error.
C24_ZeroPartsEndNormally ==
    (stream = ZeroPartStream /\ Finished) =>
        (pc = "done" /\ err = "none" /\ out = <<>>)

\* C26: as long as the consumer has not gone on after an error, the
\* decoder observes the end of the chunk source at most once, never pulls
\* after it has observed it, and a successful run ends with that
\* observation on an exhausted source.
C26_SourceProtocol ==
    /\ [](~resumed => eos <= 1)
    /\ [][(~resumed' /\ eos >= 1) =>
            (pulls' = pulls /\ pos' = pos /\ eos' = eos)]_vars
    /\ []((~resumed /\ pc = "done") => (eos = 1 /\ Exhausted))

\* A successful run: parts delivered, the source probed once at its end.
C26_Witness ==
    /\ ~resumed
    /\ pc = "done"
    /\ out # <<>>
    /\ eos = 1
    /\ Exhausted

PullAttempts == pulls + eos

\* C29: decoding always comes to normal end of stream or to an error;
\* every iteration of the header search and of the body search pulls a
\* new chunk; up to the first error the pulls attempted are at most the
\* chunks delivered plus one.
C29_DecodingTerminates ==
    /\ <>Finished
    /\ [][/\ (pc = "header" /\ pc' = "header") =>
               (pulls' = pulls + 1 /\ pos' > pos)
          /\ (pc \in {"body", "yield_chunk"}
              /\ pc' \in {"yield_chunk", "yield_between"}) =>
               (pulls' = pulls + 1 /\ pos' > pos)]_vars
    /\ [](~resumed => PullAttempts <= pulls + 1)

\* A malformed stream decoded to an error after searching a header over
\* several chunks.
C29_Witness ==
    /\ ~resumed
    /\ pc = "error"
    /\ err = "EndOfStream"
    /\ stream \in PrefixStreams
    /\ pulls >= 3
    /\ PullAttempts = pulls + 1

----------------------------------------------------------------------------
(* ids7client/helpers.py: connection_retry.  A client issues requests      *)
(* through a function decorated with connection_retry; every call of the   *)
(* wrapped function returns a reply, raises ConnectionError, or raises      *)
(* another exception.                                                       *)

\* The requests the client issues, one after the other.
MaxRequests == 2

\* while trial < 5
TrialLimit == 5

\* What one call of the wrapped function does.
FnOutcomes == {"reply", "ConnectionError", "ValueError"}

\* 2**trial
RetryDelay(trial) == Pow2(trial)

\* The client calls the decorated function: trial = 1.
CallRequest ==
    /\ retry.pc \in {"idle", "returned", "raised"}
    /\ Len(retry.served) < MaxRequests
    /\ retry' = [pc |-> "loop", trial |-> 1, calls |-> 0, slept |-> 0,
                 warnings |-> <<>>, result |-> "none",
                 served |-> IF retry.pc = "idle" THEN retry.served
                            ELSE Append(retry.served,
                                        <<retry.pc, retry.result, retry.calls>>)]
    /\ UNCHANGED <<mpvars, dzi, watch>>

\* One iteration of the loop of _request: the wrapped function is called;
\* on ConnectionError the trial is logged, counted and slept for.
RetryIteration ==
    /\ retry.pc = "loop"
    /\ retry.trial < TrialLimit
    /\ \E outcome \in FnOutcomes :
         retry' =
           IF outcome = "ConnectionError"
           THEN [retry EXCEPT
                   !.calls = @ + 1,
                   !.warnings = Append(@, <<retry.trial, RetryDelay(retry.trial)>>),
                   !.trial = @ + 1,
                   !.slept = @ + RetryDelay(retry.trial)]
           ELSE [retry EXCEPT
                   !.calls = @ + 1,
                   !.pc = IF outcome = "reply" THEN "returned" ELSE "raised",
                   !.result = outcome]
    /\ UNCHANGED <<mpvars, dzi, watch>>

\* The loop is left: "Request failed after 5 trials", raise ConnectionError().
RetryExhausted ==
    /\ retry.pc = "loop"
    /\ ~(retry.trial < TrialLimit)
    /\ retry' = [retry EXCEPT !.pc = "raised", !.result = "ConnectionError"]
    /\ UNCHANGED <<mpvars, dzi, watch>>

InitRetry ==
    /\ stream = <<>>
    /\ minchunk = 1
    /\ pos = 0
    /\ pulls = 0
    /\ eos = 0
    /\ _buffer = <<>>
    /\ next_chunk = <<>>
    /\ pc = "unused"
    /\ out = <<>>
    /\ err = "none"
    /\ resumed = FALSE
    /\ dzi = DziIdle
    /\ retry = [pc |-> "idle", trial |-> 1, calls |-> 0, slept |-> 0,
                warnings |-> <<>>, result |-> "none", served |-> <<>>]
    /\ watch = WatchIdle

NextRetry ==
    \/ CallRequest
    \/ RetryIteration
    \/ RetryExhausted

SpecRetry == InitRetry /\ [][NextRetry]_vars

\* C27: when connection_retry gives up with ConnectionError, the wrapped
\* request has been called exactly 5 times.
C27_FiveTrials ==
    (retry.pc = "raised" /\ retry.result = "ConnectionError") =>
        retry.calls = 5

----------------------------------------------------------------------------
(* worker.py: cli_watch, run by several worker processes over one queue    *)
(* folder, with locks.py, the web server that writes the queue files       *)
(* (webserver.py) and a process that takes a lock with lock_acquire.  One   *)
(* step of a process is one access to what the processes share: the        *)
(* folder listing, the time of a file, a lock, a queue file.                *)

MaxWorkers == 2
MaxFiles == 2

\* The requests for one slide that the web server handles at the same time.
MaxWriters == 1

Workers == 1..MaxWorkers
QueueFiles == 1..MaxFiles
NoFile == 0

\* The processing section: between lock_try_acquire and lock_release.
SectionPcs == {"read", "process", "release"}

\* Modification times are kept as ranks, 0 for none: only their order and
\* their equality matter.  The times in use are those of the files in the
\* folder, those the workers have read while sorting, and the clock tick of
\* the latest modification.
TimesOf(s) ==
    ({s.mtime[f] : f \in QueueFiles}
     \cup {s.keys[w][f] : w \in Workers, f \in QueueFiles}
     \cup {s.clock}) \ {0}
Rank(s, t) == IF t = 0 THEN 0 ELSE Cardinality({u \in TimesOf(s) : u <= t})
Normalised(s) ==
    [s EXCEPT !.mtime = [f \in QueueFiles |-> Rank(s, s.mtime[f])],
              !.keys = [w \in Workers |->
                          [f \in QueueFiles |-> Rank(s, s.keys[w][f])]],
              !.clock = Rank(s, s.clock)]

\* The time of a modification made now: the clock tick of the latest
\* modification (the two get equal times) or a later one.
Now(s) == {s.clock, s.clock + 1} \ {0}

\* The *.txt files of the queue folder.
Existing(s) == {f \in QueueFiles : s.mtime[f] # 0}

\* The orders in which the folder may list the files S.
DirectoryOrders(S) ==
    {q \in [1..Cardinality(S) -> S] :
        \A i, j \in 1..Cardinality(S) : q[i] = q[j] => i = j}

\* sorted(listed, key=...): the listed files by increasing key; the sort is
\* stable, files with equal keys stay in the order they are listed in.
SortedBy(listed, key) ==
    LET files == {listed[j] : j \in 1..Len(listed)}
        index(f) == CHOOSE j \in 1..Len(listed) : listed[j] = f
        before(f) == {g \in files : \/ key[g] < key[f]
                                    \/ key[g] = key[f] /\ index(g) <= index(f)}
    IN  [i \in 1..Len(listed) |->
            CHOOSE f \in files : Cardinality(before(f)) = i]

NoKeys == [f \in QueueFiles |-> 0]
NoWriters == [live |-> 0, orphan |-> 0]

\* (variant: the lock is granted whoever holds it)
LockFreeAlways(holders) == TRUE

\* fcntl.flock(fd, LOCK_EX | LOCK_NB) succeeds when no other open file holds
\* the lock.
LockFree(holders) == holders = {}

\* lock_try_acquire by process w on the lock file of queue file f, where
\* os.open returns the descriptor fd: <<the watch state after it, the
\* descriptor returned or None>>.
lock_try_acquire(w, f, fd) ==
    IF LockFree(watch.flock[f])
    THEN <<[watch EXCEPT !.lockfiles = @ \cup {f}, !.flock[f] = @ \cup {w}],
           Some(fd)>>
    ELSE <<[watch EXCEPT !.lockfiles = @ \cup {f}], None>>

\* lock_release by process w of the lock it holds on f.
lock_release(s, w, f) == [s EXCEPT !.flock[f] = @ \ {w}]

\* The descriptor os.open returns: 0 in a process whose descriptor 0 is
\* free, another one (3) otherwise.
Descriptors == {0, 3}

\* A request for a slide is queued (webserver.py, write_text on the queue
\* file of the slide).  First the file is opened for writing: it is created
\* or truncated, so it is listed, empty and the youngest of the folder.
WriteTextOpen(f) ==
    /\ watch.writers[f].live + watch.writers[f].orphan < MaxWriters
    /\ \E t \in Now(watch) :
         watch' = Normalised([watch EXCEPT !.mtime[f] = t,
                                           !.clock = t,
                                           !.empty = @ \cup {f},
                                           !.writers[f].live = @ + 1])

\* Then the link is written and the file closed: the file has its content
\* and is the youngest again; when the file was unlinked after the open,
\* the write leaves nothing in the folder.
WriteTextWrite(f) ==
    \/ /\ watch.writers[f].live > 0
       /\ \E t \in Now(watch) :
            watch' = Normalised([watch EXCEPT !.mtime[f] = t,
                                              !.clock = t,
                                              !.empty = @ \ {f},
                                              !.writers[f].live = @ - 1])
    \/ /\ watch.writers[f].orphan > 0
       /\ watch' = [watch EXCEPT !.writers[f].orphan = @ - 1]

\* queue_file.unlink(): the requests that have the file open write to a
\* file that is no longer in the folder.
Unlinked(s, f) ==
    [s EXCEPT !.mtime[f] = 0,
              !.empty = @ \ {f},
              !.writers[f] = [live |-> 0, orphan |-> @.orphan + @.live]]

\* Path(queue_folder).glob("*.txt"): the files of the folder in the order
\* the folder lists them; with nothing listed the for loop has nothing to
\* sort.
Glob(w) ==
    /\ watch.wpc[w] = "glob"
    /\ \E listed \in DirectoryOrders(Existing(watch)) :
         watch' = [watch EXCEPT
                     !.globbed[w] = listed,
                     !.wpc[w] = IF listed = <<>> THEN "iterate" ELSE "sort"]

\* sorted(..., key=os.path.getmtime): one getmtime per listed file, in the
\* order of the listing; getmtime of a file that is gone raises
\* FileNotFoundError, which ends the worker.  After the last one the files
\* are sorted by the times read, oldest first.
SortByMtime(w) ==
    /\ watch.wpc[w] = "sort"
    /\ LET listed == watch.globbed[w]
           done == {j \in 1..Len(listed) : watch.keys[w][listed[j]] # 0}
           f == listed[Cardinality(done) + 1]
           keys == [watch.keys[w] EXCEPT ![f] = watch.mtime[f]]
       IN  IF watch.mtime[f] = 0
           THEN watch' = Normalised([watch EXCEPT !.globbed[w] = <<>>,
                                                  !.keys[w] = NoKeys,
                                                  !.wpc[w] = "crashed"])
           ELSE IF Cardinality(done) + 1 < Len(listed)
           THEN watch' = [watch EXCEPT !.keys[w] = keys]
           ELSE watch' = Normalised(
                   [watch EXCEPT !.globbed[w] = <<>>,
                                 !.keys[w] = NoKeys,
                                 !.listing[w] = SortedBy(listed, keys),
                                 !.wpc[w] = "iterate"])

\* The head of the for loop: the next listed file, lock_try_acquire, and
\* `continue` without the lock (`is None`); the sleep after the loop when
\* none is left.
TryNextFile(w) ==
    /\ watch.wpc[w] = "iterate"
    /\ IF watch.listing[w] = <<>>
       THEN watch' = [watch EXCEPT !.skipped[w] = NoFile, !.wpc[w] = "sleep"]
       ELSE \E fd \in Descriptors :
              LET f == Head(watch.listing[w])
                  tried == lock_try_acquire(w, f, fd)
              IN  IF tried[2] # None
                  THEN watch' = [tried[1] EXCEPT !.current[w] = f,
                                                 !.listing[w] = <<>>,
                                                 !.skipped[w] = NoFile,
                                                 !.wpc[w] = "read"]
                  ELSE watch' = [tried[1] EXCEPT !.listing[w] = Tail(@),
                                                 !.skipped[w] = f]

\* queue_file.read_text(): FileNotFoundError when the file is gone; of a
\* file that is still empty it gives "", the path of the request file is
\* then the queue folder itself and reading it raises IsADirectoryError.
ReadQueueFile(w) ==
    /\ watch.wpc[w] = "read"
    /\ IF watch.mtime[watch.current[w]] # 0 /\ watch.current[w] \notin watch.empty
       THEN watch' = [watch EXCEPT !.wpc[w] = "process"]
       ELSE watch' = [watch EXCEPT !.failed[w] = TRUE, !.wpc[w] = "release"]

\* The rest of the try block: the request is processed and the queue file
\* unlinked, or an exception is raised on the way.
ProcessRequest(w) ==
    /\ watch.wpc[w] = "process"
    /\ \/ watch' = [watch EXCEPT !.failed[w] = TRUE, !.wpc[w] = "release"]
       \/ IF watch.mtime[watch.current[w]] # 0
          THEN watch' = Normalised([Unlinked(watch, watch.current[w]) EXCEPT
                                      !.wpc[w] = "release"])
          ELSE watch' = [watch EXCEPT !.failed[w] = TRUE,
                                      !.wpc[w] = "release"]

\* finally: lock_release; then `break` and the sleep, or the exception
\* leaves cli_watch.
ReleaseLock(w) ==
    /\ watch.wpc[w] = "release"
    /\ watch' = [lock_release(watch, w, watch.current[w]) EXCEPT
                    !.current[w] = NoFile,
                    !.failed[w] = FALSE,
                    !.wpc[w] = IF watch.failed[w] THEN "crashed" ELSE "sleep"]

\* time.sleep(10), then the next listing.
Sleep(w) ==
    /\ watch.wpc[w] = "sleep"
    /\ watch' = [watch EXCEPT !.wpc[w] = "glob"]

\* The holder of a lock taken with lock_acquire: a process other than the
\* workers of cli_watch.  zero tells whether its descriptor 0 is free;
\* stuck is the queue file whose lock it holds through descriptor 0.
Caller == 0
CallerStates ==
    {[pc |-> "idle", file |-> NoFile, zero |-> z, stuck |-> NoFile] :
        z \in {"free", "taken"}}

\* One pass of the loop of lock_acquire: lock_try_acquire, and the
\* descriptor is returned if it is true (`if lock_file_fd:`), or the caller
\* sleeps half a second.  Descriptor 0 is not true: the caller goes on as
\* if it had no lock, and keeps the lock it has through descriptor 0.
LockAcquirePass(f) ==
    LET fd == IF watch.caller.zero = "free" THEN 0 ELSE 3
        tried == lock_try_acquire(Caller, f, fd)
        kept == tried[2] # None /\ fd = 0
    IN  watch' = [tried[1] EXCEPT
                    !.caller = [pc |-> IF tried[2] # None /\ fd # 0
                                       THEN "holding" ELSE "polling",
                                file |-> f,
                                zero |-> IF kept THEN "taken" ELSE @.zero,
                                stuck |-> IF kept THEN f ELSE @.stuck]]

\* lock_acquire(lock_file, timeout) on the lock file of queue file f: the
\* call with its first pass; a later pass while the time is not over; None
\* once it is.  (With no time at all it returns None and touches nothing.)
lock_acquire(f) ==
    \/ /\ watch.caller.pc = "idle"
       /\ LockAcquirePass(f)
    \/ /\ watch.caller.pc = "polling"
       /\ watch.caller.file = f
       /\ \/ LockAcquirePass(f)
          \/ watch' = [watch EXCEPT !.caller.pc = "idle",
                                    !.caller.file = NoFile]

\* lock_release of the lock that lock_acquire returned.
CallerRelease ==
    /\ watch.caller.pc = "holding"
    /\ watch' = [lock_release(watch, Caller, watch.caller.file) EXCEPT
                    !.caller.pc = "idle",
                    !.caller.file = NoFile]

InitWatch ==
    /\ stream = <<>>
    /\ minchunk = 1
    /\ pos = 0
    /\ pulls = 0
    /\ eos = 0
    /\ _buffer = <<>>
    /\ next_chunk = <<>>
    /\ pc = "unused"
    /\ out = <<>>
    /\ err = "none"
    /\ resumed = FALSE
    /\ dzi = DziIdle
    /\ retry = RetryIdle
    /\ \E caller \in CallerStates :
         watch = [mtime |-> [f \in QueueFiles |-> 0],
                  clock |-> 0,
                  empty |-> {},
                  writers |-> [f \in QueueFiles |-> NoWriters],
                  lockfiles |-> {},
                  flock |-> [f \in QueueFiles |-> {}],
                  wpc |-> [w \in Workers |-> "glob"],
                  globbed |-> [w \in Workers |-> <<>>],
                  keys |-> [w \in Workers |-> NoKeys],
                  listing |-> [w \in Workers |-> <<>>],
                  current |-> [w \in Workers |-> NoFile],
                  failed |-> [w \in Workers |-> FALSE],
                  skipped |-> [w \in Workers |-> NoFile],
                  caller |-> caller]

NextWatch ==
    /\ \/ \E f \in QueueFiles : WriteTextOpen(f)
       \/ \E f \in QueueFiles : WriteTextWrite(f)
       \/ \E w \in Workers : Glob(w)
       \/ \E w \in Workers : SortByMtime(w)
       \/ \E w \in Workers : TryNextFile(w)
       \/ \E w \in Workers : ReadQueueFile(w)
       \/ \E w \in Workers : ProcessRequest(w)
       \/ \E w \in Workers : ReleaseLock(w)
       \/ \E w \in Workers : Sleep(w)
       \/ \E f \in QueueFiles : lock_acquire(f)
       \/ CallerRelease
    /\ UNCHANGED <<mpvars, dzi, retry>>

SpecWatch == InitWatch /\ [][NextWatch]_vars

InSection(w, f) == watch.wpc[w] \in SectionPcs /\ watch.current[w] = f

\* Worker w is at a listed file whose lock another worker holds.
AtLockedFile(w) ==
    /\ watch.wpc[w] = "iterate"
    /\ watch.listing[w] # <<>>
    /\ watch.flock[Head(watch.listing[w])] # {}

\* C30: at most one worker at a time is in the processing section of a
\* queue file; a worker outside the section holds no lock (the lock is
\* released on every exit); a worker that does not get the lock goes on to
\* the next listed file and the step leaves the queue files as they are.
C30_OneWorkerPerQueueFile ==
    /\ [](\A f \in QueueFiles :
            Cardinality({w \in Workers : InSection(w, f)}) <= 1)
    /\ [](\A w \in Workers : \A f \in QueueFiles :
            (w \in watch.flock[f]) => InSection(w, f))
    /\ [][\A w \in Workers :
            (AtLockedFile(w) /\ watch'.listing[w] # watch.listing[w]) =>
                /\ watch'.wpc[w] = "iterate"
                /\ watch'.listing[w] = Tail(watch.listing[w])
                /\ watch'.current[w] = NoFile
                /\ watch'.mtime = watch.mtime
                /\ watch'.empty = watch.empty]_vars

\* One worker is processing a queue file that is still there while another
\* has just skipped that file.
C30_Witness ==
    \E w \in Workers : \E v \in Workers \ {w} : \E f \in QueueFiles :
        /\ InSection(w, f)
        /\ watch.mtime[f] # 0
        /\ watch.wpc[w] = "process"
        /\ watch.wpc[v] = "iterate"
        /\ watch.skipped[v] = f

============================================================================
